---- MODULE Spec2Model ----
(***************************************************************************)
(* Whatalang runtime: the path-addressed state store (StateManager), the   *)
(* reactive engine (ReactiveEngine) and the two evaluators (Interpreter,   *)
(* ReactiveInterpreter).                                                   *)
(*                                                                         *)
(* Python values live in a heap: a dict or a list is a heap cell and is    *)
(* held by reference, so that two paths may reach the same container.      *)
(***************************************************************************)
EXTENDS Integers, Sequences, FiniteSets, TLC

VARIABLES
  heap,      \* the Python objects: a sequence of dict / list cells, addressed 1..Len(heap)
  root,      \* StateManager.state: the address of the root dict
  reactive,  \* StateManager._reactive_statements: the registered ReactStatements, in order
  last,      \* the last StateManager call made by a client: its arguments and its outcome
  calls,     \* how many calls the client has made
  mR, mP, mRes,  \* a call of ReactiveEngine._paths_match: its two arguments and its result
  output,    \* ReactiveInterpreter.output
  prog,      \* the statements of the program handed to execute
  pc,        \* where execute is: "idle" (not running), "pass1", "pass2", "triggered", "chained"
  ip,        \* the index of the statement the running loop over the program is at
  batch, ti, \* triggered (the actions a top-level set fired) and the index execute is at
  chained, cti, \* chained_triggered (the actions a fired set fired) and the index execute is at
  trace,     \* the statements this execute has run so far: level, place, statement, exception
  used,      \* the statements handed to execute so far, and the resets
  cls,       \* the class of the interpreter: "Interpreter" or "ReactiveInterpreter"
  failed,    \* whether the execute before this one ended in its except clause
  ecCond, ecTarget, ecResult,  \* a call of ReactiveEngine.evaluate_condition: its two
             \* arguments and what it did ("True", "False", or the exception it raised)
  snapshot,  \* the dict a client holds from StateManager.get_state (0: none)
  runs,      \* the calls of execute since the interpreter was constructed or reset:
             \* 0, 1, or 2 for more than one
  lexer,     \* a Lexer: source, position, line, column, tokens, and where tokenize is
             \* ("none": no lexer, "scanning", "returned", "raised") with its error
  parser,    \* a Parser: tokens, current, the statements parse has so far, and where
             \* parse is ("none": no parser, "parsing", "returned", "raised") with its error
  lastCheck  \* the last call of check_reactive_statements a client made: its path,
             \* what it raised or returned, and the statements and calls so far

storeVars == <<heap, root, reactive>>
matchVars == <<mR, mP, mRes>>
condVars == <<ecCond, ecTarget, ecResult>>
frontVars == <<lexer, parser>>
callVars == <<mR, mP, mRes, ecCond, ecTarget, ecResult, snapshot, lexer, parser, lastCheck>>
clientVars == <<last, calls>>
loopVars == <<ip, batch, ti, chained, cti>>
interpVars == <<output, prog, pc, ip, batch, ti, chained, cti, trace, used, cls, failed, runs>>
vars == <<heap, root, reactive, last, calls, mR, mP, mRes,
          output, prog, pc, ip, batch, ti, chained, cti, trace, used, cls, failed,
          ecCond, ecTarget, ecResult, snapshot, runs, lexer, parser, lastCheck>>

----------------------------------------------------------------------------
(* Python values.  One record shape for every value, so that any two values *)
(* can be compared: t is the Python type, n the number (or the address of a *)
(* container), s the text of a str.                                         *)

NoneV == [t |-> "none", n |-> 0, s |-> ""]
IntV(i) == [t |-> "int", n |-> i, s |-> ""]
StrV(x) == [t |-> "str", n |-> 0, s |-> x]
BoolV(b) == [t |-> "bool", n |-> IF b THEN 1 ELSE 0, s |-> ""]
RefV(a) == [t |-> "ref", n |-> a, s |-> ""]

EmptyMap == [k \in {} |-> NoneV]
DictC(m) == [tag |-> "dict", m |-> m, e |-> <<>>]
ListC(e) == [tag |-> "list", m |-> EmptyMap, e |-> e]

IsDict(h, v) == v.t = "ref" /\ h[v.n].tag = "dict"
IsList(h, v) == v.t = "ref" /\ h[v.n].tag = "list"

\* d[key] = value on a dict's map
DictPut(m, key, value) == [k \in (DOMAIN m) \cup {key} |-> IF k = key THEN value ELSE m[k]]
\* del d[key]
DictDel(m, key) == [k \in (DOMAIN m) \ {key} |-> m[k]]
\* del l[index] on a list: the later elements shift down (index is 0-based)
ListDel(e, index) == [i \in 1..(Len(e) - 1) |-> IF i <= index THEN e[i] ELSE e[i + 1]]

\* str.isdigit() and int(str) on the path segments the model uses
Digits == <<"0", "1", "2", "3", "4", "5", "6", "7", "8", "9">>
IsDigit(part) == \E i \in 1..Len(Digits) : Digits[i] = part
IntOf(part) == (CHOOSE i \in 1..Len(Digits) : Digits[i] = part) - 1

----------------------------------------------------------------------------
(* StateManager *)

Raise(exc) == [exc |-> exc, v |-> NoneV]
Return(v) == [exc |-> "none", v |-> v]

\* (mutant) an index outside a list is reported as a missing key
RECURSIVE get_from_index_as_key(_, _, _)
get_from_index_as_key(h, current, path) ==
  IF path = <<>> THEN Return(current)
  ELSE LET part == Head(path) IN
    IF IsDict(h, current) /\ part \in DOMAIN h[current.n].m
      THEN get_from_index_as_key(h, h[current.n].m[part], Tail(path))
    ELSE IF IsList(h, current) /\ IsDigit(part)
      THEN LET index == IntOf(part) IN
           IF 0 <= index /\ index < Len(h[current.n].e)
             THEN get_from_index_as_key(h, h[current.n].e[index + 1], Tail(path))
             ELSE Raise("KeyError")
    ELSE Raise("KeyError")

\* StateManager.get: the loop over the parts, from the value reached so far
RECURSIVE get_from(_, _, _)
get_from(h, current, path) ==
  IF path = <<>> THEN Return(current)
  ELSE LET part == Head(path) IN
    IF IsDict(h, current) /\ part \in DOMAIN h[current.n].m
      THEN get_from(h, h[current.n].m[part], Tail(path))
    ELSE IF IsList(h, current) /\ IsDigit(part)
      THEN LET index == IntOf(part) IN
           IF 0 <= index /\ index < Len(h[current.n].e)
             THEN get_from(h, h[current.n].e[index + 1], Tail(path))
             ELSE Raise("IndexError")
    ELSE Raise("KeyError")

get(h, rt, path) == get_from(h, RefV(rt), path)

\* The outcome of a mutating call: the exception (or "none") and the heap it leaves
Left(exc, h) == [exc |-> exc, h |-> h]

\* StateManager.set, "Navigate to the parent of the target": the loop over path[:-1]
RECURSIVE set_navigate(_, _, _, _)
set_navigate(h, rt, current, parts) ==
  IF parts = <<>> THEN [exc |-> "none", h |-> h, current |-> current]
  ELSE LET part == Head(parts) IN
    IF IsDict(h, current) THEN
      IF part \notin DOMAIN h[current.n].m THEN
        IF current = RefV(rt)
          THEN LET new == Len(h) + 1
                   h2 == Append([h EXCEPT ![current.n].m = DictPut(@, part, RefV(new))],
                                DictC(EmptyMap))
               IN set_navigate(h2, rt, RefV(new), Tail(parts))
          ELSE [exc |-> "KeyError", h |-> h, current |-> current]
      ELSE set_navigate(h, rt, h[current.n].m[part], Tail(parts))
    ELSE IF IsList(h, current) /\ IsDigit(part) THEN
      LET index == IntOf(part) IN
      IF 0 <= index /\ index < Len(h[current.n].e)
        THEN set_navigate(h, rt, h[current.n].e[index + 1], Tail(parts))
        ELSE [exc |-> "IndexError", h |-> h, current |-> current]
    ELSE [exc |-> "TypeError", h |-> h, current |-> current]

\* (an index past the end of a list appends)
set_final_appends(h, current, final_part, value) ==
  IF IsDict(h, current)
    THEN Left("none", [h EXCEPT ![current.n].m = DictPut(@, final_part, value)])
  ELSE IF IsList(h, current) /\ IsDigit(final_part)
    THEN LET index == IntOf(final_part) IN
         IF 0 <= index /\ index < Len(h[current.n].e)
           THEN Left("none", [h EXCEPT ![current.n].e[index + 1] = value])
           ELSE Left("none", [h EXCEPT ![current.n].e = Append(@, value)])
  ELSE Left("TypeError", h)

\* StateManager.set, "Set the final value"
set_final(h, current, final_part, value) ==
  IF IsDict(h, current)
    THEN Left("none", [h EXCEPT ![current.n].m = DictPut(@, final_part, value)])
  ELSE IF IsList(h, current) /\ IsDigit(final_part)
    THEN LET index == IntOf(final_part) IN
         IF 0 <= index /\ index < Len(h[current.n].e)
           THEN Left("none", [h EXCEPT ![current.n].e[index + 1] = value])
           ELSE Left("IndexError", h)
  ELSE Left("TypeError", h)

\* StateManager.set(path, value)
set(h, rt, path, value) ==
  IF path = <<>> THEN Left("ValueError", h)
  ELSE LET nav == set_navigate(h, rt, RefV(rt), SubSeq(path, 1, Len(path) - 1)) IN
       IF nav.exc # "none" THEN Left(nav.exc, nav.h)
       ELSE set_final(nav.h, nav.current, path[Len(path)], value)

\* (mutant) a dict key is reported deleted and left in place
delete_final_keeps_key(h, current, final_part) ==
  IF IsDict(h, current) /\ final_part \in DOMAIN h[current.n].m
    THEN Left("none", h)
  ELSE IF IsList(h, current) /\ IsDigit(final_part)
    THEN LET index == IntOf(final_part) IN
         IF 0 <= index /\ index < Len(h[current.n].e)
           THEN Left("none", [h EXCEPT ![current.n].e = ListDel(@, index)])
           ELSE Left("IndexError", h)
  ELSE Left("KeyError", h)

\* (mutant) deleting a dict key empties the dict
delete_final_clears(h, current, final_part) ==
  IF IsDict(h, current) /\ final_part \in DOMAIN h[current.n].m
    THEN Left("none", [h EXCEPT ![current.n].m = EmptyMap])
  ELSE IF IsList(h, current) /\ IsDigit(final_part)
    THEN LET index == IntOf(final_part) IN
         IF 0 <= index /\ index < Len(h[current.n].e)
           THEN Left("none", [h EXCEPT ![current.n].e = ListDel(@, index)])
           ELSE Left("IndexError", h)
  ELSE Left("KeyError", h)

\* StateManager.delete, "Delete the final value"
delete_final(h, current, final_part) ==
  IF IsDict(h, current) /\ final_part \in DOMAIN h[current.n].m
    THEN Left("none", [h EXCEPT ![current.n].m = DictDel(@, final_part)])
  ELSE IF IsList(h, current) /\ IsDigit(final_part)
    THEN LET index == IntOf(final_part) IN
         IF 0 <= index /\ index < Len(h[current.n].e)
           THEN Left("none", [h EXCEPT ![current.n].e = ListDel(@, index)])
           ELSE Left("IndexError", h)
  ELSE Left("KeyError", h)

\* StateManager.delete(path): the parent is found as get finds it
delete(h, rt, path) ==
  IF path = <<>> THEN Left("ValueError", h)
  ELSE LET nav == get_from(h, RefV(rt), SubSeq(path, 1, Len(path) - 1)) IN
       IF nav.exc # "none" THEN Left(nav.exc, h)
       ELSE delete_final(h, nav.v, path[Len(path)])

\* What rebinds self.state: the heap with the new object, and its address
Bound(h, rt) == [h |-> h, rt |-> rt]

\* (mutant) clear leaves an empty list as the state
clear_to_array(h) == Bound(Append(h, ListC(<<>>)), Len(h) + 1)

\* StateManager.clear: self.state = {} (the cache it also empties is never filled)
clear(h) == Bound(Append(h, DictC(EmptyMap)), Len(h) + 1)

\* StateManager.set_state: self.state = new_state.copy(), with new_state a dict:
\* a new dict with the same keys and the same values
set_state(h, new_state) == Bound(Append(h, DictC(h[new_state.n].m)), Len(h) + 1)

----------------------------------------------------------------------------
(* ReactiveEngine._paths_match *)

\* reactive_path[:len(changed_path)]
Slice(path, n) == SubSeq(path, 1, IF n < Len(path) THEN n ELSE Len(path))

\* (mutant) a prefix in either direction matches
paths_match_either_way(reactive_path, changed_path) ==
  IF reactive_path = changed_path THEN TRUE
  ELSE IF Len(changed_path) < Len(reactive_path)
    THEN changed_path = Slice(reactive_path, Len(changed_path))
  ELSE reactive_path = Slice(changed_path, Len(reactive_path))

paths_match(reactive_path, changed_path) ==
  IF reactive_path = changed_path THEN TRUE
  ELSE IF Len(changed_path) < Len(reactive_path)
    THEN changed_path = Slice(reactive_path, Len(changed_path))
  ELSE FALSE

----------------------------------------------------------------------------
(* The AST (parser/__init__.py).  Every node of a kind has the same fields. *)

Literal(v) == [node |-> "Literal", value |-> v, name |-> "", pairs |-> <<>>, elements |-> <<>>]
Identifier(name) ==
  [node |-> "Identifier", value |-> NoneV, name |-> name, pairs |-> <<>>, elements |-> <<>>]
Object(pairs) ==
  [node |-> "Object", value |-> NoneV, name |-> "", pairs |-> pairs, elements |-> <<>>]
Array(elements) ==
  [node |-> "Array", value |-> NoneV, name |-> "", pairs |-> <<>>, elements |-> elements]
KeyValuePair(key, value) == [key |-> key, value |-> value]

\* A part of a Path: a str, or the expression of a bracketed index
StrPart(x) == [k |-> "str", s |-> x, e |-> Literal(NoneV)]
ExprPart(e) == [k |-> "expr", s |-> "", e |-> e]

SetStatement(path, value) ==
  [stmt |-> "SetStatement", path |-> path, value |-> value, pairs |-> <<>>,
   target |-> <<>>, conditions |-> <<>>, default |-> <<>>]
PrintStatement(expression) ==
  [stmt |-> "PrintStatement", path |-> <<>>, value |-> expression, pairs |-> <<>>,
   target |-> <<>>, conditions |-> <<>>, default |-> <<>>]
StateDeclaration(pairs) ==
  [stmt |-> "StateDeclaration", path |-> <<>>, value |-> Literal(NoneV), pairs |-> pairs,
   target |-> <<>>, conditions |-> <<>>, default |-> <<>>]
\* ReactStatement(target, conditions, actions): target is the parts of its Path
ReactStatement(target, conditions, default) ==
  [stmt |-> "ReactStatement", path |-> <<>>, value |-> Literal(NoneV), pairs |-> <<>>,
   target |-> target, conditions |-> conditions, default |-> default]
ReactiveCondition(operator, value, actions) ==
  [operator |-> operator, value |-> value, actions |-> actions]

----------------------------------------------------------------------------
(* Python's comparisons, as evaluate_condition uses them *)

FloatV(halves) == [t |-> "float", n |-> halves, s |-> ""]   \* the float halves / 2
NodeV == [t |-> "node", n |-> 0, s |-> ""]                  \* an AST node held as a value

IsNumber(v) == v.t \in {"int", "bool", "float"}
Num(v) == IF v.t = "float" THEN v.n ELSE 2 * v.n            \* twice the number

\* The strings of the model in Python's order (by code point)
StrOrder == <<"", "0", "1", "2", "5", "7", "None", "a", "b", "high", "q", "u", "x", "y", "z">>
StrRank(x) == CHOOSE i \in 1..Len(StrOrder) : StrOrder[i] = x

\* a == b.  "RecursionError": the comparison of two containers never ends
RECURSIVE py_eq(_, _, _, _)
RECURSIVE py_eq_items(_, _, _, _, _)

\* list == list of one length, from item i on: the first pair of items that is not
\* equal decides (an item that is the other item is equal to it)
py_eq_items(h, ea, eb, i, fuel) ==
  IF i > Len(ea) THEN "True"
  ELSE IF ea[i] = eb[i] THEN py_eq_items(h, ea, eb, i + 1, fuel)
  ELSE [r \in {"True", "False", "RecursionError"} |->
          IF r = "True" THEN py_eq_items(h, ea, eb, i + 1, fuel) ELSE r
       ][py_eq(h, ea[i], eb[i], fuel - 1)]

py_eq(h, a, b, fuel) ==
  LET item(x, y) == IF x = y THEN "True" ELSE py_eq(h, x, y, fuel - 1) IN
  IF IsNumber(a) /\ IsNumber(b) THEN (IF Num(a) = Num(b) THEN "True" ELSE "False")
  ELSE IF a.t = "str" /\ b.t = "str" THEN (IF a.s = b.s THEN "True" ELSE "False")
  ELSE IF a.t = "none" /\ b.t = "none" THEN "True"
  ELSE IF IsDict(h, a) /\ IsDict(h, b) THEN
    LET ma == h[a.n].m
        mb == h[b.n].m
    IN IF DOMAIN ma # DOMAIN mb THEN "False"
       ELSE IF fuel = 0 THEN "RecursionError"
       ELSE IF \E k \in DOMAIN ma : item(ma[k], mb[k]) = "False" THEN "False"
       ELSE IF \E k \in DOMAIN ma : item(ma[k], mb[k]) = "RecursionError" THEN "RecursionError"
       ELSE "True"
  ELSE IF IsList(h, a) /\ IsList(h, b) THEN
    IF Len(h[a.n].e) # Len(h[b.n].e) THEN "False"
    ELSE IF fuel = 0 THEN "RecursionError"
    ELSE py_eq_items(h, h[a.n].e, h[b.n].e, 1, fuel)
  ELSE "False"

\* (>= and <= taken as > and <)
Holds_strict(op, x, y) ==
  CASE op = ">" -> x > y [] op = "<" -> x < y [] op = ">=" -> x > y [] op = "<=" -> x < y

Holds(op, x, y) ==
  CASE op = ">" -> x > y [] op = "<" -> x < y [] op = ">=" -> x >= y [] op = "<=" -> x <= y

\* a op b for an ordering operator.  "TypeError": the operands are not ordered
RECURSIVE py_order(_, _, _, _, _)
py_order(h, op, a, b, fuel) ==
  LET item(x, y) == IF x = y THEN "True" ELSE py_eq(h, x, y, fuel - 1) IN
  IF IsNumber(a) /\ IsNumber(b) THEN (IF Holds(op, Num(a), Num(b)) THEN "True" ELSE "False")
  ELSE IF a.t = "str" /\ b.t = "str"
    THEN (IF Holds(op, StrRank(a.s), StrRank(b.s)) THEN "True" ELSE "False")
  ELSE IF IsList(h, a) /\ IsList(h, b) THEN
    LET ea == h[a.n].e
        eb == h[b.n].e
        both == 1..(IF Len(ea) < Len(eb) THEN Len(ea) ELSE Len(eb))
        differ == {i \in both : item(ea[i], eb[i]) # "True"}
        first == CHOOSE i \in differ : \A j \in differ : i <= j
    IN IF fuel = 0 THEN "RecursionError"
       ELSE IF differ = {} THEN (IF Holds(op, Len(ea), Len(eb)) THEN "True" ELSE "False")
       ELSE IF item(ea[first], eb[first]) = "RecursionError" THEN "RecursionError"
       ELSE py_order(h, op, ea[first], eb[first], fuel - 1)
  ELSE "TypeError"

\* Deeper than this, a comparison has come back to a pair of containers it is comparing
Fuel(h) == Len(h) * Len(h)

----------------------------------------------------------------------------
(* ReactiveEngine *)

\* ReactiveEngine._evaluate_expression
evaluate_expression(h, rt, expression) ==
  LET got(r) == IF r.exc = "KeyError" THEN NoneV ELSE r.v IN
  IF expression.node = "Literal" THEN expression.value
  ELSE IF expression.node = "Identifier" THEN got(get(h, rt, <<expression.name>>))
  ELSE NodeV

\* a != b
py_ne(h, a, b, fuel) ==
  LET negated(r) == IF r = "True" THEN "False" ELSE IF r = "False" THEN "True" ELSE r
  IN negated(py_eq(h, a, b, fuel))

\* ReactiveEngine.evaluate_condition, the body of its try: "True", "False", or the
\* exception the comparison raised
try_condition(h, rt, condition, value) ==
  LET compare(operator, condition_value) ==
        IF operator = "==" THEN py_eq(h, value, condition_value, Fuel(h))
        ELSE IF operator = "!=" THEN py_ne(h, value, condition_value, Fuel(h))
        ELSE IF operator \in {">", "<", ">=", "<="}
          THEN py_order(h, operator, value, condition_value, Fuel(h))
        ELSE py_eq(h, value, condition_value, Fuel(h))
  IN compare(condition.operator, evaluate_expression(h, rt, condition.value))

\* (the exception is not caught)
condition_result_uncaught(h, rt, condition, value) == try_condition(h, rt, condition, value)

\* ReactiveEngine.evaluate_condition with its except clause: any exception gives False
condition_result(h, rt, condition, value) ==
  LET caught(r) == IF r \in {"True", "False"} THEN r ELSE "False"
  IN caught(try_condition(h, rt, condition, value))

\* ReactiveEngine.evaluate_condition
evaluate_condition(h, rt, condition, value) == condition_result(h, rt, condition, value) = "True"

\* One entry of triggered_actions (from: the place of the action in the registry,
\* <<rule, condition, action>>, kept for the properties)
Triggered(ri, ci, ai, condition, target_value, condition_value) ==
  [type |-> "reactive", condition |-> condition, action |-> condition.actions[ai],
   target_value |-> target_value, condition_value |-> condition_value,
   from |-> <<ri, ci, ai>>]

\* (first match: only the first condition that is met adds its actions)
conditions_from_first_match(h, rt, ri, conditions, ci, target_value) ==
  LET met == {c \in ci..Len(conditions) : evaluate_condition(h, rt, conditions[c], target_value)}
      first == CHOOSE c \in met : \A d \in met : c <= d
  IN IF met = {} THEN <<>>
     ELSE [ai \in 1..Len(conditions[first].actions) |->
             Triggered(ri, first, ai, conditions[first], target_value,
                       evaluate_expression(h, rt, conditions[first].value))]

\* for condition in react_statement.conditions: the actions of each condition met
RECURSIVE conditions_from(_, _, _, _, _, _)
conditions_from(h, rt, ri, conditions, ci, target_value) ==
  IF ci > Len(conditions) THEN <<>>
  ELSE LET condition == conditions[ci]
           now == IF evaluate_condition(h, rt, condition, target_value)
                    THEN [ai \in 1..Len(condition.actions) |->
                            Triggered(ri, ci, ai, condition, target_value,
                                      evaluate_expression(h, rt, condition.value))]
                    ELSE <<>>
       IN now \o conditions_from(h, rt, ri, conditions, ci + 1, target_value)

Raised(exc) == [exc |-> exc, triggered |-> <<>>]

\* (the default block fires when no condition is met; its actions are at condition 0)
evaluate_reactive_statement_with_default(h, rt, ri, react_statement) ==
  LET otherwise == ReactiveCondition("default", Literal(NoneV), react_statement.default)
      conditions(target) ==
        IF target.exc = "KeyError" THEN [exc |-> "none", triggered |-> <<>>]
        ELSE IF target.exc # "none" THEN Raised(target.exc)
        ELSE IF conditions_from(h, rt, ri, react_statement.conditions, 1, target.v) # <<>>
          THEN [exc |-> "none",
                triggered |-> conditions_from(h, rt, ri, react_statement.conditions, 1, target.v)]
        ELSE [exc |-> "none",
              triggered |-> [ai \in 1..Len(react_statement.default) |->
                               Triggered(ri, 0, ai, otherwise, target.v, NoneV)]]
  IN conditions(get(h, rt, react_statement.target))

\* (a target that does not resolve raises out of the check)
evaluate_reactive_statement_raises(h, rt, ri, react_statement) ==
  LET conditions(target) ==
        IF target.exc # "none" THEN Raised(target.exc)
        ELSE [exc |-> "none",
              triggered |-> conditions_from(h, rt, ri, react_statement.conditions, 1, target.v)]
  IN conditions(get(h, rt, react_statement.target))

\* ReactiveEngine._evaluate_reactive_statement (ri: the rule's place in the registry)
evaluate_reactive_statement(h, rt, ri, react_statement) ==
  LET conditions(target) ==
        IF target.exc = "KeyError" THEN [exc |-> "none", triggered |-> <<>>]
        ELSE IF target.exc # "none" THEN Raised(target.exc)
        ELSE [exc |-> "none",
              triggered |-> conditions_from(h, rt, ri, react_statement.conditions, 1, target.v)]
  IN conditions(get(h, rt, react_statement.target))

\* ReactiveEngine.check_reactive_statements: the loop over the registered statements
RECURSIVE check_from(_, _, _, _, _, _)
check_from(h, rt, registered, ri, changed_path, triggered_actions) ==
  LET extend(t) ==
        IF t.exc # "none" THEN Raised(t.exc)
        ELSE check_from(h, rt, registered, ri + 1, changed_path,
                        triggered_actions \o t.triggered)
  IN IF ri > Len(registered) THEN [exc |-> "none", triggered |-> triggered_actions]
     ELSE IF paths_match(registered[ri].target, changed_path)
       THEN extend(evaluate_reactive_statement(h, rt, ri, registered[ri]))
     ELSE check_from(h, rt, registered, ri + 1, changed_path, triggered_actions)

check_reactive_statements(h, rt, registered, changed_path) ==
  check_from(h, rt, registered, 1, changed_path, <<>>)

----------------------------------------------------------------------------
(* The lines of self.output: the f-string that made the line (kind), the text it
   starts with, and what it was formatted from *)

Line(kind, starts, about, v) == [kind |-> kind, starts |-> starts, about |-> about, v |-> v]
RegisteredLine(target) == Line("registered", "Registered reactive statement for ", target, NoneV)
InitializedLine(n) == Line("initialized", "State initialized with ", <<>>, IntV(n))
SetLine(path, value) == Line("set", "Set ", path, value)
PrintedLine(name, value) == Line("printed", name, <<name>>, value)
NotFoundLine(name) == Line("not found", "Error: ", <<name>>, NoneV)
ValueLine(text) == Line("value", text, <<>>, NoneV)
CurrentStateLine == Line("current state", "Current state:", <<>>, NoneV)
StateLines(n) == Line("state lines", "  ", <<>>, IntV(n))
IdentifierWarning(name) == Line("identifier", "Warning: ", <<name>>, NoneV)
UnknownWarning(type) == Line("unknown statement", "Warning: ", <<type>>, NoneV)
CouldNotSetWarning(path, exc) == Line("could not set", "Warning: ", path, StrV(exc))
ErrorLine(exc) == Line("exception", "Error: ", <<exc>>, NoneV)
TriggerLine(operator, condition_value) ==
  Line("trigger", "Reactive trigger: ", <<"unknown", operator>>, condition_value)
ExecutingLine(type) == Line("executing", "  -> Executing: ", <<type>>, NoneV)

\* str(value)
StrOf(h, v) ==
  CASE v.t = "int" -> IF v.n \in 0..9 THEN Digits[v.n + 1] ELSE "int"
    [] v.t = "str" -> v.s
    [] v.t = "none" -> "None"
    [] v.t = "bool" -> IF v.n = 1 THEN "True" ELSE "False"
    [] v.t = "float" -> "float"
    [] v.t = "ref" -> IF h[v.n].tag = "dict" THEN "{...}" ELSE "[...]"
    [] OTHER -> "ASTNode()"

----------------------------------------------------------------------------
(* What the two interpreters share: _evaluate_value, _evaluate_path and the
   execution of a statement.  Each takes the heap and the output so far and
   gives the heap and the output it leaves. *)

RECURSIVE evaluate_value(_, _, _, _)
RECURSIVE evaluate_pairs(_, _, _, _, _)
RECURSIVE evaluate_elements(_, _, _, _, _)

\* result[kvp.key] = self._evaluate_value(kvp.value), for each pair in turn
evaluate_pairs(h, rt, out, pairs, result) ==
  LET rest(r) ==
        evaluate_pairs(r.h, rt, r.out, Tail(pairs), DictPut(result, Head(pairs).key, r.v))
  IN IF pairs = <<>> THEN [h |-> h, out |-> out, m |-> result]
     ELSE rest(evaluate_value(h, rt, out, Head(pairs).value))

\* [self._evaluate_value(element) for element in value.elements]
evaluate_elements(h, rt, out, elements, result) ==
  LET rest(r) == evaluate_elements(r.h, rt, r.out, Tail(elements), Append(result, r.v))
  IN IF elements = <<>> THEN [h |-> h, out |-> out, e |-> result]
     ELSE rest(evaluate_value(h, rt, out, Head(elements)))

\* (mutant) an identifier that is not in the state is None, and nothing is said
evaluate_value_none(h, rt, out, value) ==
  LET object(r) ==
        [h |-> Append(r.h, DictC(r.m)), out |-> r.out, v |-> RefV(Len(r.h) + 1)]
      array(r) ==
        [h |-> Append(r.h, ListC(r.e)), out |-> r.out, v |-> RefV(Len(r.h) + 1)]
      identifier(r) ==
        IF r.exc = "KeyError" THEN [h |-> h, out |-> out, v |-> NoneV]
                              ELSE [h |-> h, out |-> out, v |-> r.v]
  IN IF value.node = "Literal" THEN [h |-> h, out |-> out, v |-> value.value]
     ELSE IF value.node = "Object"
       THEN object(evaluate_pairs(h, rt, out, value.pairs, EmptyMap))
     ELSE IF value.node = "Array"
       THEN array(evaluate_elements(h, rt, out, value.elements, <<>>))
     ELSE IF value.node = "Identifier" THEN identifier(get(h, rt, <<value.name>>))
     ELSE [h |-> h, out |-> out, v |-> StrV("ASTNode()")]

\* (mutant) an identifier that names a container gives a copy of the container
evaluate_value_copies(h, rt, out, value) ==
  LET object(r) ==
        [h |-> Append(r.h, DictC(r.m)), out |-> r.out, v |-> RefV(Len(r.h) + 1)]
      array(r) ==
        [h |-> Append(r.h, ListC(r.e)), out |-> r.out, v |-> RefV(Len(r.h) + 1)]
      identifier(r) ==
        IF r.exc = "KeyError"
          THEN [h |-> h, out |-> Append(out, IdentifierWarning(value.name)),
                v |-> StrV(value.name)]
        ELSE IF r.v.t = "ref"
          THEN [h |-> Append(h, h[r.v.n]), out |-> out, v |-> RefV(Len(h) + 1)]
          ELSE [h |-> h, out |-> out, v |-> r.v]
  IN IF value.node = "Literal" THEN [h |-> h, out |-> out, v |-> value.value]
     ELSE IF value.node = "Object"
       THEN object(evaluate_pairs(h, rt, out, value.pairs, EmptyMap))
     ELSE IF value.node = "Array"
       THEN array(evaluate_elements(h, rt, out, value.elements, <<>>))
     ELSE IF value.node = "Identifier" THEN identifier(get(h, rt, <<value.name>>))
     ELSE [h |-> h, out |-> out, v |-> StrV("ASTNode()")]

\* _evaluate_value
evaluate_value(h, rt, out, value) ==
  LET object(r) ==
        [h |-> Append(r.h, DictC(r.m)), out |-> r.out, v |-> RefV(Len(r.h) + 1)]
      array(r) ==
        [h |-> Append(r.h, ListC(r.e)), out |-> r.out, v |-> RefV(Len(r.h) + 1)]
      identifier(r) ==
        IF r.exc = "KeyError"
          THEN [h |-> h, out |-> Append(out, IdentifierWarning(value.name)),
                v |-> StrV(value.name)]
          ELSE [h |-> h, out |-> out, v |-> r.v]
  IN IF value.node = "Literal" THEN [h |-> h, out |-> out, v |-> value.value]
     ELSE IF value.node = "Object"
       THEN object(evaluate_pairs(h, rt, out, value.pairs, EmptyMap))
     ELSE IF value.node = "Array"
       THEN array(evaluate_elements(h, rt, out, value.elements, <<>>))
     ELSE IF value.node = "Identifier" THEN identifier(get(h, rt, <<value.name>>))
     ELSE [h |-> h, out |-> out, v |-> StrV("ASTNode()")]

\* _evaluate_path
RECURSIVE evaluate_path(_, _, _, _, _)
evaluate_path(h, rt, out, parts, result) ==
  LET index(r) == evaluate_path(r.h, rt, r.out, Tail(parts), Append(result, StrOf(r.h, r.v)))
      next(part) ==
        IF part.k = "str" THEN evaluate_path(h, rt, out, Tail(parts), Append(result, part.s))
        ELSE IF part.e.node = "Identifier"
          THEN evaluate_path(h, rt, out, Tail(parts), Append(result, part.e.name))
        ELSE index(evaluate_value(h, rt, out, part.e))
  IN IF parts = <<>> THEN [h |-> h, out |-> out, path |-> result]
     ELSE next(Head(parts))

\* What a statement leaves: the exception it raised (or "none"), the heap, the output
Done(exc, h, out) == [exc |-> exc, h |-> h, out |-> out]

\* _execute_state_declaration
RECURSIVE declare_pairs(_, _, _, _)
declare_pairs(h, rt, out, pairs) ==
  LET stored(value, r) ==
        IF r.exc # "none" THEN Done(r.exc, r.h, value.out)
        ELSE declare_pairs(r.h, rt, value.out, Tail(pairs))
      valued(value) == stored(value, set(value.h, rt, <<Head(pairs).key>>, value.v))
  IN IF pairs = <<>> THEN Done("none", h, out)
     ELSE valued(evaluate_value(h, rt, out, Head(pairs).value))

execute_state_declaration(h, rt, out, declaration) ==
  LET declared(r) ==
        IF r.exc # "none" THEN r
        ELSE Done("none", r.h, Append(r.out, InitializedLine(Len(declaration.pairs))))
  IN declared(declare_pairs(h, rt, out, declaration.pairs))

\* ReactiveInterpreter._execute_set_statement: an exception of set is not caught
execute_set_statement(h, rt, out, set_stmt) ==
  LET stored(p, value, r) ==
        IF r.exc # "none" THEN Done(r.exc, r.h, value.out)
        ELSE Done("none", r.h, Append(value.out, SetLine(p.path, value.v)))
      valued(p, value) == stored(p, value, set(value.h, rt, p.path, value.v))
      pathed(p) == valued(p, evaluate_value(p.h, rt, p.out, set_stmt.value))
  IN pathed(evaluate_path(h, rt, out, set_stmt.path, <<>>))

\* _print_state_recursive: how many lines it appends (-1: the state holds itself,
\* and the recursion ends in a RecursionError)
RECURSIVE print_state_recursive(_, _, _)
print_state_recursive(h, state, fuel) ==
  IF state.t # "ref" THEN 0
  ELSE IF fuel = 0 THEN -1
  ELSE LET items == IF h[state.n].tag = "dict"
                      THEN {<<k, h[state.n].m[k]>> : k \in DOMAIN h[state.n].m}
                      ELSE {<<i, h[state.n].e[i]>> : i \in 1..Len(h[state.n].e)}
           below(item) == print_state_recursive(h, item[2], fuel - 1)
           RECURSIVE total(_)
           total(S) == IF S = {} THEN 0
                       ELSE LET item == CHOOSE x \in S : TRUE IN 1 + below(item) + total(S \ {item})
       IN IF \E item \in items : below(item) = -1 THEN -1 ELSE total(items)

\* _execute_print_statement
execute_print_statement(h, rt, out, print_stmt) ==
  LET expression == print_stmt.value
      lines(copy, n) ==
        Done(IF n = -1 THEN "RecursionError" ELSE "none", copy,
             out \o <<CurrentStateLine, StateLines(n)>>)
      whole(copy) == lines(copy, print_state_recursive(copy, RefV(Len(copy)), Len(copy)))
      named(r) ==
        IF r.exc = "KeyError" THEN Done("none", h, Append(out, NotFoundLine(expression.name)))
        ELSE Done("none", h, Append(out, PrintedLine(expression.name, r.v)))
      evaluated(value) ==
        Done("none", value.h, Append(value.out, ValueLine(StrOf(value.h, value.v))))
  IN IF expression.node = "Identifier"
       THEN IF expression.name = "state" THEN whole(Append(h, DictC(h[rt].m)))
            ELSE named(get(h, rt, <<expression.name>>))
     ELSE evaluated(evaluate_value(h, rt, out, expression))

\* ReactiveInterpreter._execute_statement
execute_statement(h, rt, out, statement) ==
  IF statement.stmt = "StateDeclaration" THEN execute_state_declaration(h, rt, out, statement)
  ELSE IF statement.stmt = "SetStatement" THEN execute_set_statement(h, rt, out, statement)
  ELSE IF statement.stmt = "PrintStatement" THEN execute_print_statement(h, rt, out, statement)
  ELSE Done("none", h, Append(out, UnknownWarning(statement.stmt)))

\* Interpreter._execute_set_statement: KeyError, IndexError and TypeError are caught
Interpreter_execute_set_statement(h, rt, out, set_stmt) ==
  LET stored(p, value, r) ==
        IF r.exc \in {"KeyError", "IndexError", "TypeError"}
          THEN Done("none", r.h, Append(value.out, CouldNotSetWarning(p.path, r.exc)))
        ELSE IF r.exc # "none" THEN Done(r.exc, r.h, value.out)
        ELSE Done("none", r.h, Append(value.out, SetLine(p.path, value.v)))
      valued(p, value) == stored(p, value, set(value.h, rt, p.path, value.v))
      pathed(p) == valued(p, evaluate_value(p.h, rt, p.out, set_stmt.value))
  IN pathed(evaluate_path(h, rt, out, set_stmt.path, <<>>))

\* Interpreter._execute_statement
Interpreter_execute_statement(h, rt, out, statement) ==
  IF statement.stmt = "StateDeclaration" THEN execute_state_declaration(h, rt, out, statement)
  ELSE IF statement.stmt = "SetStatement"
    THEN Interpreter_execute_set_statement(h, rt, out, statement)
  ELSE IF statement.stmt = "PrintStatement" THEN execute_print_statement(h, rt, out, statement)
  ELSE Done("none", h, Append(out, UnknownWarning(statement.stmt)))

\* ReactiveEngine.execute_reactive_actions: two lines for each triggered action
RECURSIVE execute_reactive_actions(_)
execute_reactive_actions(triggered_actions) ==
  IF triggered_actions = <<>> THEN <<>>
  ELSE LET triggered == Head(triggered_actions) IN
       <<TriggerLine(triggered.condition.operator, triggered.condition_value),
         ExecutingLine(triggered.action.stmt)>> \o execute_reactive_actions(Tail(triggered_actions))

----------------------------------------------------------------------------
(* Lexer (whatalang/lexer.py).  The source is a sequence of characters and a   *)
(* position is the number of characters before it, as in Python.              *)

Token(type, value, line, column) ==
  [type |-> type, value |-> value, line |-> line, column |-> column]

\* No ValueError has been raised
NoError == [message |-> "", character |-> "", line |-> 0, column |-> 0]

Letters ==
  {"a", "b", "c", "d", "e", "f", "g", "h", "i", "j", "k", "l", "m",
   "n", "o", "p", "q", "r", "s", "t", "u", "v", "w", "x", "y", "z"}
WhitespaceChars == {" ", "\n", "\t", "\r"}

DigitChars == {Digits[i] : i \in 1..Len(Digits)}
NameChars == Letters \cup DigitChars \cup {"_"}

\* \w and [a-zA-Z_] on the characters a source is made of
IsWordChar(c) == c \in NameChars
IsNameStart(c) == c \in Letters \/ c = "_"

\* \b at a position: a word character on exactly one side of it
WordAt(source, position) ==
  position >= 0 /\ position < Len(source) /\ IsWordChar(source[position + 1])
Boundary(source, position) == WordAt(source, position - 1) # WordAt(source, position)

\* The end of the longest run, from a position, of characters that are in the set
\* (inside = TRUE) or of characters that are not in it (inside = FALSE)
RECURSIVE RunEnd(_, _, _, _)
RunEnd(source, position, chars, inside) ==
  IF position < Len(source) /\ ((source[position + 1] \in chars) = inside)
    THEN RunEnd(source, position + 1, chars, inside)
    ELSE position

\* The text itself, at the position
TextEnd(source, position, text) ==
  IF /\ position + Len(text) <= Len(source)
     /\ \A i \in 1..Len(text) : source[position + i] = text[i]
    THEN position + Len(text)
    ELSE -1

\* One pattern of self.patterns, and where pattern.match(source, position) ends
\* (-1: it does not match)
Pattern(kind, text, type) == [kind |-> kind, text |-> text, type |-> type]

match_end(source, position, pattern) ==
  LET bounded(end) == IF end > position /\ Boundary(source, end) THEN end ELSE -1
      fraction(dot) ==
        IF dot > position /\ dot < Len(source) /\ source[dot + 1] = "."
          THEN LET end == RunEnd(source, dot + 1, DigitChars, TRUE) IN
               IF end > dot + 1 /\ Boundary(source, end) THEN end ELSE -1
          ELSE -1
      closing(end) ==
        IF end < Len(source) THEN end + 1 ELSE -1
      nonempty(end) == IF end > position THEN end ELSE -1
  IN CASE pattern.kind = "word" ->          \* \bword\b
            IF Boundary(source, position)
              THEN bounded(TextEnd(source, position, pattern.text)) ELSE -1
       [] pattern.kind = "float" ->         \* \b\d+\.\d+\b
            IF Boundary(source, position)
              THEN fraction(RunEnd(source, position, DigitChars, TRUE)) ELSE -1
       [] pattern.kind = "integer" ->       \* \b\d+\b
            IF Boundary(source, position)
              THEN bounded(RunEnd(source, position, DigitChars, TRUE)) ELSE -1
       [] pattern.kind = "string" ->        \* "[^"]*" and '[^']*'
            IF position < Len(source) /\ source[position + 1] = pattern.text[1]
              THEN closing(RunEnd(source, position + 1, {pattern.text[1]}, FALSE)) ELSE -1
       [] pattern.kind = "text" ->          \* an operator or a delimiter
            TextEnd(source, position, pattern.text)
       [] pattern.kind = "identifier" ->    \* \b[a-zA-Z_][a-zA-Z0-9_]*\b
            IF /\ Boundary(source, position)
               /\ position < Len(source) /\ IsNameStart(source[position + 1])
              THEN bounded(RunEnd(source, position + 1, NameChars, TRUE)) ELSE -1
       [] pattern.kind = "whitespace" ->    \* \s+
            nonempty(RunEnd(source, position, WhitespaceChars, TRUE))

\* self.patterns, in the order they are tried
patterns ==
  << Pattern("word", <<"s", "t", "a", "t", "e">>, "STATE"),
     Pattern("word", <<"s", "e", "t">>, "SET"),
     Pattern("word", <<"p", "r", "i", "n", "t">>, "PRINT"),
     Pattern("word", <<"r", "e", "a", "c", "t">>, "REACT"),
     Pattern("word", <<"t", "o">>, "TO"),
     Pattern("word", <<"w", "h", "e", "n">>, "WHEN"),
     Pattern("word", <<"d", "e", "f", "a", "u", "l", "t">>, "DEFAULT"),
     Pattern("word", <<"t", "r", "u", "e">>, "BOOLEAN"),
     Pattern("word", <<"f", "a", "l", "s", "e">>, "BOOLEAN"),
     Pattern("word", <<"n", "u", "l", "l">>, "NULL"),
     Pattern("float", <<>>, "NUMBER"),
     Pattern("integer", <<>>, "NUMBER"),
     Pattern("string", <<"\"">>, "STRING"),
     Pattern("string", <<"'">>, "STRING"),
     Pattern("text", <<"=", "=">>, "EQUAL_EQUAL"),
     Pattern("text", <<"!", "=">>, "NOT_EQUAL"),
     Pattern("text", <<">", "=">>, "GREATER_EQUAL"),
     Pattern("text", <<"<", "=">>, "LESS_EQUAL"),
     Pattern("text", <<"=">>, "EQUALS"),
     Pattern("text", <<"+">>, "PLUS"),
     Pattern("text", <<"-">>, "MINUS"),
     Pattern("text", <<"*">>, "MULTIPLY"),
     Pattern("text", <<"/">>, "DIVIDE"),
     Pattern("text", <<">">>, "GREATER"),
     Pattern("text", <<"<">>, "LESS"),
     Pattern("text", <<"{">>, "LEFT_BRACE"),
     Pattern("text", <<"}">>, "RIGHT_BRACE"),
     Pattern("text", <<"[">>, "LEFT_BRACKET"),
     Pattern("text", <<"]">>, "RIGHT_BRACKET"),
     Pattern("text", <<":">>, "COLON"),
     Pattern("text", <<",">>, "COMMA"),
     Pattern("text", <<"(">>, "LEFT_PAREN"),
     Pattern("text", <<")">>, "RIGHT_PAREN"),
     Pattern("text", <<".">>, "DOT"),
     Pattern("identifier", <<>>, "IDENTIFIER"),
     Pattern("whitespace", <<>>, "WHITESPACE") >>

\* value.count('\n') and value.rfind('\n')
NewlinesIn(value) == Cardinality({i \in 1..Len(value) : value[i] = "\n"})
LastNewline(value) ==
  LET at == {i \in 1..Len(value) : value[i] = "\n"} IN
  (CHOOSE i \in at : \A j \in at : j <= i) - 1

\* (mutant) the column goes on counting across a newline
update_position_keeps_column(lx, value) ==
  [lx EXCEPT !.line = @ + NewlinesIn(value), !.column = @ + Len(value)]

\* Lexer._update_position
update_position(lx, value) ==
  IF NewlinesIn(value) > 0
    THEN [lx EXCEPT !.line = @ + NewlinesIn(value),
                    !.column = Len(value) - LastNewline(value)]
    ELSE [lx EXCEPT !.column = @ + Len(value)]

\* Lexer._next_token: the lexer it leaves and the token it returns, or the
\* ValueError it raises
next_token(lx) ==
  LET matching == {i \in 1..Len(patterns) :
                     match_end(lx.source, lx.position, patterns[i]) # -1}
      matched(i, end) ==
        [exc |-> "none",
         lexer |-> update_position([lx EXCEPT !.position = end],
                                   SubSeq(lx.source, lx.position + 1, end)),
         token |-> Token(patterns[i].type, SubSeq(lx.source, lx.position + 1, end),
                         lx.line, lx.column)]
      first(i) == matched(i, match_end(lx.source, lx.position, patterns[i]))
  IN IF matching = {}
       THEN [exc |-> "ValueError",
             lexer |-> [lx EXCEPT !.error =
                          [message |-> "Unexpected character",
                           character |-> lx.source[lx.position + 1],
                           line |-> lx.line, column |-> lx.column]],
             token |-> Token("", <<>>, 0, 0)]
       ELSE first(CHOOSE i \in matching : \A j \in matching : i <= j)

----------------------------------------------------------------------------
(* Parser (parser/__init__.py).  self.tokens is a parameter of every method   *)
(* and self.current is passed in and given back: each method gives the        *)
(* exception it raised (or "none"), the current it leaves, and what it        *)
(* returns.                                                                   *)

\* None, where a method returns it in place of a node
NoneNode == [node |-> "None", value |-> NoneV, name |-> "", pairs |-> <<>>, elements |-> <<>>]

Parsed(current, node) == [exc |-> "none", current |-> current, node |-> node, error |-> NoError]
Unparsed(current, error) ==
  [exc |-> "ValueError", current |-> current, node |-> NoneNode, error |-> error]

peek(tokens, current) == tokens[current + 1]
is_at_end(tokens, current) == peek(tokens, current).type = "EOF"
check(tokens, current, token_type) ==
  IF is_at_end(tokens, current) THEN FALSE ELSE peek(tokens, current).type = token_type
\* _advance: the current it leaves (what it returns is the token before that)
advance(tokens, current) == IF ~is_at_end(tokens, current) THEN current + 1 ELSE current
\* _match: the current it leaves (it returned True iff that is not the one given)
match(tokens, current, token_type) ==
  IF check(tokens, current, token_type) THEN advance(tokens, current) ELSE current

\* _consume
consume(tokens, current, token_type, message) ==
  IF check(tokens, current, token_type) THEN Parsed(advance(tokens, current), NoneNode)
  ELSE Unparsed(current, [message |-> message, character |-> "",
                          line |-> peek(tokens, current).line,
                          column |-> peek(tokens, current).column])

\* token.value.strip('"\''), int(token.value) and float(token.value) on the token
\* values the model uses
StripQuotes(text) == IF text = "\"s\"" THEN "s" ELSE text
HasDot(text) == text = "1.5"
NumberOf(text) == IF HasDot(text) THEN FloatV(3) ELSE IntV(IntOf(text))

RECURSIVE parse_value(_, _)
RECURSIVE key_value_pairs(_, _, _)
RECURSIVE array_elements(_, _, _)

\* _parse_key_value_pair
parse_key_value_pair(tokens, current) ==
  LET pair(key, value) ==
        [exc |-> "none",
         current |-> match(tokens, value.current, "COMMA"),
         node |-> KeyValuePair(key, IF value.node = NoneNode THEN Literal(StrV(""))
                                    ELSE value.node),
         error |-> NoError]
      valued(key, value) == IF value.exc # "none" THEN value ELSE pair(key, value)
      colon(key, r) ==
        IF r.exc # "none" THEN r ELSE valued(key, parse_value(tokens, r.current))
      keyed(r) ==
        IF r.exc # "none" THEN r
        ELSE colon(tokens[r.current].value,
                   consume(tokens, r.current, "COLON", "Expected ':' after key"))
  IN keyed(consume(tokens, current, "IDENTIFIER", "Expected identifier as key"))

\* The loop of _parse_state_declaration and of _parse_object:
\* while not self._check(RIGHT_BRACE) and not self._is_at_end()
key_value_pairs(tokens, current, pairs) ==
  LET paired(r) ==
        IF r.exc # "none" THEN [exc |-> r.exc, current |-> r.current, items |-> pairs,
                                error |-> r.error]
        ELSE key_value_pairs(tokens, r.current, Append(pairs, r.node))
  IN IF ~check(tokens, current, "RIGHT_BRACE") /\ ~is_at_end(tokens, current)
       THEN IF check(tokens, current, "IDENTIFIER")
              THEN paired(parse_key_value_pair(tokens, current))
              ELSE key_value_pairs(tokens, advance(tokens, current), pairs)
       ELSE [exc |-> "none", current |-> current, items |-> pairs, error |-> NoError]

\* _parse_object
parse_object(tokens, current) ==
  LET closed(pairs, r) ==
        IF r.exc # "none" THEN r ELSE Parsed(r.current, Object(pairs.items))
      looped(pairs) ==
        IF pairs.exc # "none" THEN Unparsed(pairs.current, pairs.error)
        ELSE closed(pairs, consume(tokens, pairs.current, "RIGHT_BRACE",
                                   "Expected '}' after object"))
      opened(r) ==
        IF r.exc # "none" THEN r ELSE looped(key_value_pairs(tokens, r.current, <<>>))
  IN opened(consume(tokens, current, "LEFT_BRACE", "Expected '{'"))

\* The loop of _parse_array:
\* while not self._check(RIGHT_BRACKET) and not self._is_at_end()
array_elements(tokens, current, elements) ==
  LET element(r) ==
        IF r.exc # "none" THEN [exc |-> r.exc, current |-> r.current, items |-> elements,
                                error |-> r.error]
        ELSE IF check(tokens, r.current, "COMMA")
          THEN array_elements(tokens, advance(tokens, r.current), Append(elements, r.node))
        ELSE [exc |-> "none", current |-> r.current, items |-> Append(elements, r.node),
              error |-> NoError]
  IN IF ~check(tokens, current, "RIGHT_BRACKET") /\ ~is_at_end(tokens, current)
       THEN element(parse_value(tokens, current))
       ELSE [exc |-> "none", current |-> current, items |-> elements, error |-> NoError]

\* _parse_array
parse_array(tokens, current) ==
  LET closed(elements, r) ==
        IF r.exc # "none" THEN r ELSE Parsed(r.current, Array(elements.items))
      looped(elements) ==
        IF elements.exc # "none" THEN Unparsed(elements.current, elements.error)
        ELSE closed(elements, consume(tokens, elements.current, "RIGHT_BRACKET",
                                      "Expected ']' after array"))
      opened(r) ==
        IF r.exc # "none" THEN r ELSE looped(array_elements(tokens, r.current, <<>>))
  IN opened(consume(tokens, current, "LEFT_BRACKET", "Expected '['"))

\* _parse_value
parse_value(tokens, current) ==
  LET token == peek(tokens, current)
      next == advance(tokens, current)
  IN IF check(tokens, current, "LEFT_BRACE") THEN parse_object(tokens, current)
     ELSE IF check(tokens, current, "LEFT_BRACKET") THEN parse_array(tokens, current)
     ELSE IF check(tokens, current, "STRING")
       THEN Parsed(next, Literal(StrV(StripQuotes(token.value))))
     ELSE IF check(tokens, current, "NUMBER") THEN Parsed(next, Literal(NumberOf(token.value)))
     ELSE IF check(tokens, current, "BOOLEAN")
       THEN Parsed(next, Literal(BoolV(token.value = "true")))
     ELSE IF check(tokens, current, "NULL") THEN Parsed(next, Literal(NoneV))
     ELSE IF check(tokens, current, "IDENTIFIER") THEN Parsed(next, Identifier(token.value))
     ELSE Parsed(next, NoneNode)

\* _parse_state_declaration: a missing closing brace is not an error
parse_state_declaration(tokens, current) ==
  LET looped(pairs) ==
        IF pairs.exc # "none" THEN Unparsed(pairs.current, pairs.error)
        ELSE Parsed(match(tokens, pairs.current, "RIGHT_BRACE"), StateDeclaration(pairs.items))
      opened(r) ==
        IF r.exc # "none" THEN r ELSE looped(key_value_pairs(tokens, r.current, <<>>))
  IN opened(consume(tokens, current, "LEFT_BRACE", "Expected '{' after 'state'"))

\* _parse_expression
parse_expression(tokens, current) ==
  LET valued(r) ==
        IF r.exc = "none" /\ r.node = NoneNode THEN Parsed(r.current, Identifier("unknown"))
        ELSE r
  IN IF check(tokens, current, "IDENTIFIER") \/ check(tokens, current, "STATE")
       THEN Parsed(advance(tokens, current), Identifier(peek(tokens, current).value))
       ELSE valued(parse_value(tokens, current))

\* The loop of _parse_path: while not self._is_at_end()
RECURSIVE path_parts(_, _, _)
path_parts(tokens, current, parts) ==
  LET done(at) == [exc |-> "none", current |-> at, items |-> parts, error |-> NoError]
      gave_up(r) == [exc |-> r.exc, current |-> r.current, items |-> parts, error |-> r.error]
      bracket(index, r) ==
        IF r.exc # "none" THEN gave_up(r)
        ELSE path_parts(tokens, r.current, Append(parts, ExprPart(index.node)))
      indexed(index) ==
        IF index.exc # "none" THEN gave_up(index)
        ELSE bracket(index, consume(tokens, index.current, "RIGHT_BRACKET",
                                    "Expected ']' after array index"))
      dotted(at) ==
        IF check(tokens, at, "IDENTIFIER") \/ check(tokens, at, "NUMBER")
          THEN path_parts(tokens, advance(tokens, at),
                          Append(parts, StrPart(peek(tokens, at).value)))
          ELSE done(at)
  IN IF is_at_end(tokens, current) THEN done(current)
     ELSE IF check(tokens, current, "DOT") THEN dotted(advance(tokens, current))
     ELSE IF check(tokens, current, "LEFT_BRACKET")
       THEN indexed(parse_expression(tokens, advance(tokens, current)))
     ELSE done(current)

\* _parse_path
parse_path(tokens, current) ==
  IF check(tokens, current, "IDENTIFIER")
    THEN path_parts(tokens, advance(tokens, current),
                    <<StrPart(peek(tokens, current).value)>>)
    ELSE [exc |-> "none", current |-> current, items |-> <<>>, error |-> NoError]

\* _parse_set_statement
parse_set_statement(tokens, current) ==
  LET valued(path, value) ==
        IF value.exc # "none" THEN value
        ELSE Parsed(value.current, SetStatement(path.items, value.node))
      equals(path, r) ==
        IF r.exc # "none" THEN r ELSE valued(path, parse_expression(tokens, r.current))
      pathed(path) ==
        IF path.exc # "none" THEN Unparsed(path.current, path.error)
        ELSE equals(path, consume(tokens, path.current, "EQUALS",
                                  "Expected '=' in set statement"))
  IN pathed(parse_path(tokens, current))

\* _parse_print_statement
parse_print_statement(tokens, current) ==
  LET valued(value) ==
        IF value.exc # "none" THEN value
        ELSE Parsed(value.current, PrintStatement(value.node))
  IN valued(parse_expression(tokens, current))

\* _parse_statement (None: an unknown token was skipped)
\* (mutant) a leading token that starts no statement is left where it is
parse_statement_keeps_unknown(tokens, current) ==
  IF check(tokens, current, "STATE")
    THEN parse_state_declaration(tokens, advance(tokens, current))
  ELSE IF check(tokens, current, "SET")
    THEN parse_set_statement(tokens, advance(tokens, current))
  ELSE IF check(tokens, current, "PRINT")
    THEN parse_print_statement(tokens, advance(tokens, current))
  ELSE Parsed(current, NoneNode)

parse_statement(tokens, current) ==
  IF check(tokens, current, "STATE")
    THEN parse_state_declaration(tokens, advance(tokens, current))
  ELSE IF check(tokens, current, "SET")
    THEN parse_set_statement(tokens, advance(tokens, current))
  ELSE IF check(tokens, current, "PRINT")
    THEN parse_print_statement(tokens, advance(tokens, current))
  ELSE Parsed(advance(tokens, current), NoneNode)

----------------------------------------------------------------------------
(* Bounds and the inputs drawn within them *)

MaxCalls == 2        \* StateManager calls the client makes after building its store
MaxMatchLen == 2     \* the longest path handed to _paths_match
MaxStmts == 3        \* statements handed to execute, over all its calls, and resets

RECURSIVE SeqsUpTo(_, _)
SeqsUpTo(S, n) ==
  IF n = 0 THEN {<<>>}
  ELSE LET shorter == SeqsUpTo(S, n - 1) IN
       shorter \cup {Append(q, x) : q \in {p \in shorter : Len(p) = n - 1}, x \in S}

\* The paths a client passes to get, set and delete
StorePaths ==
  { <<>>, <<"a">>, <<"b">>, <<"0">>,
    <<"a", "b">>, <<"a", "0">>, <<"a", "1">>, <<"a", "5">>, <<"b", "b">>,
    <<"a", "b", "b">>, <<"a", "b", "c">>, <<"a", "b", "0">>, <<"a", "0", "b">>, <<"a", "5", "b">>,
    <<"b", "b", "c">> }
MatchKeys == {"user", "age", "0"}
MatchPaths == SeqsUpTo(MatchKeys, MaxMatchLen)

----------------------------------------------------------------------------
(* A client of one StateManager: the calls it makes, one at a time *)

NoCall == [op |-> "none", path |-> <<>>, value |-> NoneV, exc |-> "none", ret |-> NoneV,
           holder |-> "none", kept |-> TRUE]

\* The call left the store as it was: the same root, and every container that
\* existed before the call unchanged (h: the heap when the call was made).
Kept(h, rt, h2, rt2) == rt2 = rt /\ \A a \in 1..Len(h) : h2[a] = h[a]

\* The values a client passes to set: a number, or a container it has just built
\* (a new heap cell), or a container an earlier get returned to it.
ArgKinds == {"7", "{}", "[1, 2]"}
Arg(h, kind) ==
  CASE kind = "1" -> [h |-> h, v |-> IntV(1)]
    [] kind = "7" -> [h |-> h, v |-> IntV(7)]
    [] kind = "{}" -> [h |-> Append(h, DictC(EmptyMap)), v |-> RefV(Len(h) + 1)]
    [] kind = "[1, 2]" -> [h |-> Append(h, ListC(<<IntV(1), IntV(2)>>)), v |-> RefV(Len(h) + 1)]

\* The kind of the container that holds a path's last segment ("none": not reached)
HolderOf(h, rt, path) ==
  IF path = <<>> THEN "none"
  ELSE LET nav == get_from(h, RefV(rt), SubSeq(path, 1, Len(path) - 1)) IN
       IF nav.exc = "none" /\ nav.v.t = "ref" THEN h[nav.v.n].tag ELSE "none"

\* No call of evaluate_condition is being made, and no snapshot is held
NoCondition == [operator |-> "", value |-> Literal(NoneV), actions |-> <<>>]
NoLexer == [source |-> <<>>, position |-> 0, line |-> 0, column |-> 0, tokens |-> <<>>,
            state |-> "none", error |-> NoError]
NoParser == [tokens |-> <<>>, current |-> 0, statements |-> <<>>,
             state |-> "none", error |-> NoError]
NoCheck == [path |-> <<>>, exc |-> "none", triggered |-> <<>>, at |-> 0, again |-> FALSE]
NoOtherCall ==
  /\ ecCond = NoCondition /\ ecTarget = NoneV /\ ecResult = "none" /\ snapshot = 0
  /\ lastCheck = NoCheck
  /\ lexer = NoLexer /\ parser = NoParser

\* No interpreter is running
NotRunning ==
  /\ output = <<>> /\ prog = <<>> /\ pc = "idle" /\ trace = <<>> /\ used = 0
  /\ ip = 0 /\ batch = <<>> /\ ti = 0 /\ chained = <<>> /\ cti = 0
  /\ cls = "ReactiveInterpreter" /\ failed = FALSE /\ runs = 0
  /\ NoOtherCall

\* The stores a client starts from, each built by set calls on a new StateManager
\* (kind "get": the value is what get(from) returns, the container itself).
SetStep(path, kind) == [path |-> path, kind |-> kind, from |-> <<>>]
Scripts ==
  { <<>>,
    <<SetStep(<<"a">>, "{}"), SetStep(<<"a", "b">>, "1")>>,
    <<SetStep(<<"a">>, "[1, 2]")>>,
    <<SetStep(<<"a">>, "{}"), [path |-> <<"b">>, kind |-> "get", from |-> <<"a">>]>>,
    <<SetStep(<<"a">>, "{}"), [path |-> <<"a", "b">>, kind |-> "get", from |-> <<"a">>]>>,
    <<SetStep(<<"a", "b">>, "[1, 2]")>>,
    <<SetStep(<<"a">>, "[1, 2]"), SetStep(<<"a", "0">>, "{}")>>,
    <<[path |-> <<"a">>, kind |-> "get", from |-> <<>>]>> }

RECURSIVE Build(_, _)
Build(h, script) ==
  IF script = <<>> THEN h
  ELSE LET step == Head(script)
           arg == IF step.kind = "get" THEN [h |-> h, v |-> get(h, 1, step.from).v]
                  ELSE Arg(h, step.kind)
       IN Build(set(arg.h, 1, step.path, arg.v).h, Tail(script))

InitStore ==
  /\ heap \in {Build(<<DictC(EmptyMap)>>, script) : script \in Scripts}
  /\ root = 1
  /\ reactive = <<>>
  /\ last = NoCall
  /\ calls = 0
  /\ mR = <<>> /\ mP = <<>> /\ mRes = "none"
  /\ NotRunning

SmSetCall(path, value, h) ==
  LET r == set(h, root, path, value) IN
  /\ calls < MaxCalls
  /\ heap' = r.h
  /\ last' = [op |-> "set", path |-> path, value |-> value, exc |-> r.exc, ret |-> NoneV,
              holder |-> HolderOf(r.h, root, path), kept |-> Kept(h, root, r.h, root)]
  /\ calls' = calls + 1
  /\ UNCHANGED <<root, reactive, callVars, interpVars>>

\* sm.set(path, <a number or a new container>)
SmSet == \E path \in StorePaths, kind \in ArgKinds :
  SmSetCall(path, Arg(heap, kind).v, Arg(heap, kind).h)

\* sm.set(path, x) where x is the container the last get returned
SmSetHeld == \E path \in StorePaths :
  /\ last.op = "get" /\ last.exc = "none" /\ last.ret.t = "ref"
  /\ SmSetCall(path, last.ret, heap)

SmGet == \E path \in StorePaths :
  LET r == get(heap, root, path) IN
  /\ calls < MaxCalls
  /\ last' = [op |-> "get", path |-> path, value |-> NoneV, exc |-> r.exc, ret |-> r.v,
              holder |-> HolderOf(heap, root, path), kept |-> TRUE]
  /\ calls' = calls + 1
  /\ UNCHANGED <<storeVars, callVars, interpVars>>

SmDelete == \E path \in StorePaths :
  LET r == delete(heap, root, path) IN
  /\ calls < MaxCalls
  /\ heap' = r.h
  /\ last' = [op |-> "delete", path |-> path, value |-> NoneV, exc |-> r.exc, ret |-> NoneV,
              holder |-> HolderOf(heap, root, path), kept |-> Kept(heap, root, r.h, root)]
  /\ calls' = calls + 1
  /\ UNCHANGED <<root, reactive, callVars, interpVars>>

\* sm.clear()
SmClear ==
  /\ calls < MaxCalls
  /\ heap' = clear(heap).h
  /\ root' = clear(heap).rt
  /\ last' = [NoCall EXCEPT !.op = "clear", !.kept = (heap[root].m = EmptyMap)]
  /\ calls' = calls + 1
  /\ UNCHANGED <<reactive, callVars, interpVars>>

NextStore == SmSet \/ SmSetHeld \/ SmGet \/ SmDelete \/ SmClear

SpecStore == InitStore /\ [][NextStore]_vars

----------------------------------------------------------------------------
(* A client that holds what StateManager.get_state returned, and writes to it *)

MaxSnapshotOps == 3  \* the calls of a client that takes a snapshot, its writes to it included

\* (get_state returns the state itself)
get_state_no_copy(h, rt) == [h |-> h, v |-> RefV(rt)]

\* StateManager.get_state: self.state.copy(), a new dict with the same keys and the
\* same values (the containers among them are the store's own)
get_state(h, rt) == [h |-> Append(h, DictC(h[rt].m)), v |-> RefV(Len(h) + 1)]

\* state_copy = sm.get_state()
SmGetState ==
  /\ calls < MaxSnapshotOps
  /\ heap' = get_state(heap, root).h
  /\ snapshot' = get_state(heap, root).v.n
  /\ last' = [NoCall EXCEPT !.op = "get_state", !.ret = get_state(heap, root).v]
  /\ calls' = calls + 1
  /\ UNCHANGED <<root, reactive, matchVars, condVars, interpVars, frontVars, lastCheck>>

SnapshotKeys == {"a", "b"}

\* state_copy[key] = value
SnapshotPut == \E key \in SnapshotKeys, kind \in ArgKinds :
  /\ calls < MaxSnapshotOps
  /\ snapshot # 0
  /\ heap' = [Arg(heap, kind).h EXCEPT ![snapshot].m = DictPut(@, key, Arg(heap, kind).v)]
  /\ last' = [NoCall EXCEPT !.op = "snapshot put", !.path = <<key>>,
                            !.value = Arg(heap, kind).v]
  /\ calls' = calls + 1
  /\ UNCHANGED <<root, reactive, callVars, interpVars>>

\* del state_copy[key]
SnapshotDelete == \E key \in SnapshotKeys :
  /\ calls < MaxSnapshotOps
  /\ snapshot # 0
  /\ key \in DOMAIN heap[snapshot].m
  /\ heap' = [heap EXCEPT ![snapshot].m = DictDel(@, key)]
  /\ last' = [NoCall EXCEPT !.op = "snapshot delete", !.path = <<key>>]
  /\ calls' = calls + 1
  /\ UNCHANGED <<root, reactive, callVars, interpVars>>

\* state_copy[key][inner] = 7, on a dict or (inner an index within it) a list
SnapshotNestedPut == \E key \in SnapshotKeys, inner \in {"b", "c", "0", "1"} :
  /\ calls < MaxSnapshotOps
  /\ snapshot # 0
  /\ key \in DOMAIN heap[snapshot].m
  /\ heap[snapshot].m[key].t = "ref"
  /\ \E held \in {heap[snapshot].m[key]} :
       IF IsDict(heap, held)
         THEN heap' = [heap EXCEPT ![held.n].m = DictPut(@, inner, IntV(7))]
         ELSE /\ IsDigit(inner) /\ IntOf(inner) < Len(heap[held.n].e)
              /\ heap' = [heap EXCEPT ![held.n].e[IntOf(inner) + 1] = IntV(7)]
  /\ last' = [NoCall EXCEPT !.op = "snapshot nested put", !.path = <<key, inner>>,
                            !.value = IntV(7)]
  /\ calls' = calls + 1
  /\ UNCHANGED <<root, reactive, callVars, interpVars>>

NextSnapshot ==
  \/ SmGetState
  \/ SnapshotPut
  \/ SnapshotDelete
  \/ SnapshotNestedPut
  \/ SmSet
  \/ SmGet
  \/ SmDelete

SpecSnapshot == InitStore /\ [][NextSnapshot]_vars

----------------------------------------------------------------------------
(* A call of ReactiveEngine._paths_match on two paths *)

InitMatch ==
  /\ heap = <<DictC(EmptyMap)>>
  /\ root = 1
  /\ reactive = <<>>
  /\ last = NoCall
  /\ calls = 0
  /\ mR \in MatchPaths /\ mP \in MatchPaths /\ mRes = "none"
  /\ NotRunning

PathsMatchCall ==
  /\ mRes = "none"
  /\ mRes' = IF paths_match(mR, mP) THEN "True" ELSE "False"
  /\ UNCHANGED <<storeVars, clientVars, mR, mP, interpVars, condVars, snapshot, frontVars,
                 lastCheck>>

SpecMatch == InitMatch /\ [][PathsMatchCall]_vars

----------------------------------------------------------------------------
(* A call of ReactiveEngine.evaluate_condition on a condition and a target value *)

MaxInt == 2          \* the integers compared are -MaxInt .. MaxInt

\* The store of the engine: x = 1, o = {}, l = [1, 2], and two lists that hold
\* themselves, ra = [ra, 2] and rb = [rb, 2] (set ra = [1, 2]  set ra.0 = ra)
ConditionStore ==
  Build(<<DictC(EmptyMap)>>,
        << SetStep(<<"x">>, "1"), SetStep(<<"o">>, "{}"),
           SetStep(<<"l">>, "[1, 2]"),
           SetStep(<<"ra">>, "[1, 2]"), [path |-> <<"ra", "0">>, kind |-> "get", from |-> <<"ra">>],
           SetStep(<<"rb">>, "[1, 2]"), [path |-> <<"rb", "0">>, kind |-> "get", from |-> <<"rb">>] >>)

\* The values of a literal: null, booleans, integers, the floats 0.5 and 1.0, strings
Scalars ==
  {NoneV, BoolV(TRUE), BoolV(FALSE), FloatV(1), FloatV(2), StrV("a"), StrV("b")}
    \cup {IntV(i) : i \in (0 - MaxInt)..MaxInt}
\* The values a target has: a scalar, or a container of the store
TargetValues == Scalars \cup {get(ConditionStore, 1, <<k>>).v : k \in {"o", "l", "ra", "rb"}}
\* condition.value: a literal, an identifier (missing: not a key of the store), or
\* an object or array literal
ConditionValues ==
  {Literal(v) : v \in Scalars}
    \cup {Identifier(k) : k \in {"x", "o", "l", "ra", "rb", "missing"}}
    \cup {Object(<<>>), Array(<<>>)}
Operators == {"==", "!=", ">", "<", ">=", "<="}
OperatorStrings == Operators \cup {"=", "equals"}

InitCondition ==
  /\ heap = ConditionStore
  /\ root = 1
  /\ reactive = <<>>
  /\ last = NoCall
  /\ calls = 0
  /\ mR = <<>> /\ mP = <<>> /\ mRes = "none"
  /\ output = <<>> /\ prog = <<>> /\ pc = "idle" /\ trace = <<>> /\ used = 0
  /\ ip = 0 /\ batch = <<>> /\ ti = 0 /\ chained = <<>> /\ cti = 0
  /\ cls = "ReactiveInterpreter" /\ failed = FALSE /\ runs = 0
  /\ ecCond \in {ReactiveCondition(op, value, <<>>) : op \in OperatorStrings, value \in ConditionValues}
  /\ ecTarget \in TargetValues
  /\ ecResult = "none"
  /\ snapshot = 0
  /\ lexer = NoLexer /\ parser = NoParser /\ lastCheck = NoCheck

EvaluateConditionCall ==
  /\ ecResult = "none"
  /\ ecResult' = condition_result(heap, root, ecCond, ecTarget)
  /\ UNCHANGED <<storeVars, clientVars, matchVars, interpVars, ecCond, ecTarget, snapshot,
                 frontVars, lastCheck>>

SpecCondition == InitCondition /\ [][EvaluateConditionCall]_vars

----------------------------------------------------------------------------
(* The programs handed to execute *)

Path1(a) == <<StrPart(a)>>
Path2(a, b) == <<StrPart(a), StrPart(b)>>
Path3(a, b, c) == <<StrPart(a), StrPart(b), StrPart(c)>>
IntLit(i) == Literal(IntV(i))

SetX1 == SetStatement(Path1("x"), IntLit(1))                  \* set x = 1
SetX0 == SetStatement(Path1("x"), IntLit(0))                  \* set x = 0
SetU == SetStatement(Path1("u"), Array(<<IntLit(1)>>))        \* set u = [1]
SetU5 == SetStatement(Path2("u", "5"), IntLit(2))             \* set u.5 = 2
SetQRS == SetStatement(Path3("q", "r", "s"), IntLit(1))       \* set q.r.s = 1
SetXA == SetStatement(Path2("x", "a"), IntLit(1))             \* set x.a = 1
PrintX == PrintStatement(Identifier("x"))                  \* print x
StateXY ==                                                 \* state { x: 1, y: x }
  StateDeclaration(<<KeyValuePair("x", IntLit(1)), KeyValuePair("y", Identifier("x"))>>)

SetY1 == SetStatement(Path1("y"), IntLit(1))
SetZ1 == SetStatement(Path1("z"), IntLit(1))
SetX2 == SetStatement(Path1("x"), IntLit(2))
PrintY == PrintStatement(Identifier("y"))

\* react to x when > 0 { set y = 1 }
ReactX == ReactStatement(<<"x">>, <<ReactiveCondition(">", IntLit(0), <<SetY1>>)>>, <<>>)
\* react to y when == 1 { set z = 1  set x = 2 }
ReactY == ReactStatement(<<"y">>, <<ReactiveCondition("==", IntLit(1), <<SetZ1, SetX2>>)>>, <<>>)
\* react to x when >= 1 { set z = 1  print y } when > 0 { set x = 2 } when < 0 { set y = 1 }
ReactXMany ==
  ReactStatement(<<"x">>,
    <<ReactiveCondition(">=", IntLit(1), <<SetZ1, PrintY>>),
      ReactiveCondition(">", IntLit(0), <<SetX2>>),
      ReactiveCondition("<", IntLit(0), <<SetY1>>)>>, <<>>)
\* react to u.0 when == 1 { set y = 1 }
ReactU0 == ReactStatement(<<"u", "0">>, <<ReactiveCondition("==", IntLit(1), <<SetY1>>)>>, <<>>)
\* react to x when > 0 { set q.r.s = 1 }
ReactXFails == ReactStatement(<<"x">>, <<ReactiveCondition(">", IntLit(0), <<SetQRS>>)>>, <<>>)

Statements ==
  { SetX1, SetX0, SetU, SetU5, SetQRS, SetXA, PrintX, StateXY,
    ReactX, ReactY, ReactXMany, ReactU0, ReactXFails }

----------------------------------------------------------------------------
(* ReactiveInterpreter: execute, one iteration of its loops at a time, and reset *)

Init ==
  /\ heap = <<DictC(EmptyMap)>>
  /\ root = 1
  /\ reactive = <<>>
  /\ last = NoCall
  /\ calls = 0
  /\ mR = <<>> /\ mP = <<>> /\ mRes = "none"
  /\ output = <<>> /\ prog = <<>> /\ pc = "idle" /\ trace = <<>> /\ used = 0
  /\ ip = 0 /\ batch = <<>> /\ ti = 0 /\ chained = <<>> /\ cti = 0
  /\ cls \in {"Interpreter", "ReactiveInterpreter"}
  /\ failed = FALSE /\ runs = 0
  /\ NoOtherCall

\* The except clause of execute has appended its line
HasError(out) == \E i \in 1..Len(out) : out[i].kind = "exception"

Ran(level, place, statement, exc) ==
  [level |-> level, place |-> place, statement |-> statement, exc |-> exc]

\* execute(program): self.output = [], and the first loop begins
Programs == SeqsUpTo(Statements, MaxStmts)

ExecuteUpTo(programs, limit) ==
  /\ pc = "idle"
  /\ used < limit
  /\ \E program \in programs :
       /\ used + Len(program) <= limit
       /\ prog' = program
       /\ used' = used + Len(program)
       /\ pc' = IF program = <<>> THEN "idle"
                ELSE IF cls = "ReactiveInterpreter" THEN "pass1" ELSE "loop"
       /\ ip' = IF program = <<>> THEN 0 ELSE 1
  /\ output' = <<>>
  /\ trace' = <<>>
  /\ failed' = HasError(output)
  /\ runs' = (IF runs = 0 THEN 1 ELSE 2)
  /\ batch' = <<>> /\ ti' = 0 /\ chained' = <<>> /\ cti' = 0
  /\ UNCHANGED <<storeVars, clientVars, callVars, cls>>

ExecuteFrom(programs) == ExecuteUpTo(programs, MaxStmts)
ExecuteBegin == ExecuteFrom(Programs)

\* (one pass: the registration stops at the first statement that is not a react)
RegisterStep_leading_only ==
  /\ pc = "pass1"
  /\ IF prog[ip].stmt = "ReactStatement"
       THEN /\ reactive' = Append(reactive, prog[ip])
            /\ output' = Append(output, RegisteredLine(prog[ip].target))
            /\ IF ip < Len(prog) THEN pc' = "pass1" /\ ip' = ip + 1
                                 ELSE pc' = "pass2" /\ ip' = 1
       ELSE pc' = "pass2" /\ ip' = 1 /\ UNCHANGED <<reactive, output>>
  /\ UNCHANGED <<heap, root, prog, batch, ti, chained, cti, trace, used, cls, failed,
                 runs, clientVars, callVars>>

\* (mutant) a ReactStatement that is registered already is not registered again
RegisterStep_once ==
  /\ pc = "pass1"
  /\ IF prog[ip].stmt = "ReactStatement" /\ \A r \in 1..Len(reactive) : reactive[r] # prog[ip]
       THEN /\ reactive' = Append(reactive, prog[ip])
            /\ output' = Append(output, RegisteredLine(prog[ip].target))
       ELSE UNCHANGED <<reactive, output>>
  /\ IF ip < Len(prog) THEN pc' = "pass1" /\ ip' = ip + 1
                       ELSE pc' = "pass2" /\ ip' = 1
  /\ UNCHANGED <<heap, root, prog, batch, ti, chained, cti, trace, used, cls, failed,
                 runs, clientVars, callVars>>

\* First pass, one statement: a ReactStatement is registered
RegisterStep ==
  /\ pc = "pass1"
  /\ IF prog[ip].stmt = "ReactStatement"
       THEN /\ reactive' = Append(reactive, prog[ip])
            /\ output' = Append(output, RegisteredLine(prog[ip].target))
       ELSE UNCHANGED <<reactive, output>>
  /\ IF ip < Len(prog) THEN pc' = "pass1" /\ ip' = ip + 1
                       ELSE pc' = "pass2" /\ ip' = 1
  /\ UNCHANGED <<heap, root, prog, batch, ti, chained, cti, trace, used, cls, failed,
                 runs, clientVars, callVars>>

\* (the error line is appended, and the loop goes on)
Fails_and_goes_on(h, out, exc) ==
  /\ heap' = h
  /\ output' = Append(out, ErrorLine(exc))
  /\ UNCHANGED <<pc, loopVars>>

\* (the state is emptied before the error line is appended)
Fails_rolls_back(h, out, exc) ==
  /\ heap' = [h EXCEPT ![root] = DictC(EmptyMap)]
  /\ output' = Append(out, ErrorLine(exc))
  /\ pc' = "idle"
  /\ UNCHANGED loopVars

\* except Exception as e: the error line, and execute returns (the loops stay where
\* the exception left them)
Fails(h, out, exc) ==
  /\ heap' = h
  /\ output' = Append(out, ErrorLine(exc))
  /\ pc' = "idle"
  /\ UNCHANGED loopVars

\* The loop over the program goes on to its next statement, or execute returns
NextStatement ==
  /\ pc' = IF ip = Len(prog) THEN "idle"
           ELSE IF cls = "ReactiveInterpreter" THEN "pass2" ELSE "loop"
  /\ ip' = IF ip < Len(prog) THEN ip + 1 ELSE 0
  /\ batch' = <<>> /\ ti' = 0 /\ chained' = <<>> /\ cti' = 0

\* (the loop over triggered begins again when it ends)
NextTriggered_restarts ==
  /\ pc' = "triggered" /\ ti' = (IF ti < Len(batch) THEN ti + 1 ELSE 1)
  /\ chained' = <<>> /\ cti' = 0 /\ UNCHANGED <<ip, batch>>

\* The loop over triggered goes on to its next action, or ends
NextTriggered ==
  IF ti < Len(batch)
    THEN pc' = "triggered" /\ ti' = ti + 1 /\ chained' = <<>> /\ cti' = 0 /\ UNCHANGED <<ip, batch>>
    ELSE NextStatement

\* The loop over chained_triggered goes on to its next action, or ends
NextChained ==
  IF cti < Len(chained)
    THEN pc' = "chained" /\ cti' = cti + 1 /\ UNCHANGED <<ip, batch, ti, chained>>
    ELSE NextTriggered

\* Interpreter.execute, one statement of its loop
InterpreterStep ==
  /\ pc = "loop"
  /\ \E r \in {Interpreter_execute_statement(heap, root, output, prog[ip])} :
       /\ trace' = Append(trace, Ran(0, <<ip>>, prog[ip], r.exc))
       /\ IF r.exc # "none" THEN Fails(r.h, r.out, r.exc)
          ELSE heap' = r.h /\ output' = r.out /\ NextStatement
  /\ UNCHANGED <<root, reactive, prog, used, cls, failed, runs, clientVars, callVars>>

\* isinstance(statement, SetStatement): the reactive statements are checked after it
IsSetStatement_never(statement) == FALSE
IsSetStatement(statement) == statement.stmt = "SetStatement"

\* Second pass, one statement: it is executed and, if it is a set, the reactive
\* statements are checked for its path
StatementStep ==
  /\ pc = "pass2"
  /\ IF prog[ip].stmt = "ReactStatement"
       THEN NextStatement /\ UNCHANGED <<heap, output, trace>>
       ELSE \E r \in {execute_statement(heap, root, output, prog[ip])} :
         /\ trace' = Append(trace, Ran(0, <<ip>>, prog[ip], r.exc))
         /\ IF r.exc # "none" THEN Fails(r.h, r.out, r.exc)
            ELSE IF ~IsSetStatement(prog[ip])
              THEN heap' = r.h /\ output' = r.out /\ NextStatement
            ELSE \E path \in {evaluate_path(r.h, root, r.out, prog[ip].path, <<>>)} :
                 \E t \in {check_reactive_statements(path.h, root, reactive, path.path)} :
                   IF t.exc # "none" THEN Fails(path.h, path.out, t.exc)
                   ELSE IF t.triggered = <<>>
                     THEN heap' = path.h /\ output' = path.out /\ NextStatement
                   ELSE /\ heap' = path.h
                        /\ output' = path.out \o execute_reactive_actions(t.triggered)
                        /\ pc' = "triggered" /\ batch' = t.triggered /\ ti' = 1
                        /\ chained' = <<>> /\ cti' = 0 /\ UNCHANGED ip
  /\ UNCHANGED <<root, reactive, prog, used, cls, failed, runs, clientVars, callVars>>

\* (mutant) a triggered action whose condition is no longer met is passed over
TriggeredStep_rechecks ==
  /\ pc = "triggered"
  /\ \E action \in {batch[ti].action} :
     \E target \in {get(heap, root, reactive[batch[ti].from[1]].target)} :
     \E r \in {execute_statement(heap, root, output, action)} :
       IF target.exc # "none" \/ ~evaluate_condition(heap, root, batch[ti].condition, target.v)
         THEN NextTriggered /\ UNCHANGED <<heap, output, trace>>
       ELSE
       /\ trace' = Append(trace, Ran(1, batch[ti].from, action, r.exc))
       /\ IF r.exc # "none" THEN Fails(r.h, r.out, r.exc)
          ELSE IF ~IsSetStatement(action)
            THEN heap' = r.h /\ output' = r.out /\ NextTriggered
          ELSE \E path \in {evaluate_path(r.h, root, r.out, action.path, <<>>)} :
               \E t \in {check_reactive_statements(path.h, root, reactive, path.path)} :
                 IF t.exc # "none" THEN Fails(path.h, path.out, t.exc)
                 ELSE IF t.triggered = <<>>
                   THEN heap' = path.h /\ output' = path.out /\ NextTriggered
                 ELSE /\ heap' = path.h
                      /\ output' = path.out \o execute_reactive_actions(t.triggered)
                      /\ pc' = "chained" /\ chained' = t.triggered /\ cti' = 1
                      /\ UNCHANGED <<ip, batch, ti>>
  /\ UNCHANGED <<root, reactive, prog, used, cls, failed, runs, clientVars, callVars>>

\* One triggered action: it is executed and, if it is a set, the reactive
\* statements are checked for its path
TriggeredStep ==
  /\ pc = "triggered"
  /\ \E action \in {batch[ti].action} :
     \E r \in {execute_statement(heap, root, output, action)} :
       /\ trace' = Append(trace, Ran(1, batch[ti].from, action, r.exc))
       /\ IF r.exc # "none" THEN Fails(r.h, r.out, r.exc)
          ELSE IF ~IsSetStatement(action)
            THEN heap' = r.h /\ output' = r.out /\ NextTriggered
          ELSE \E path \in {evaluate_path(r.h, root, r.out, action.path, <<>>)} :
               \E t \in {check_reactive_statements(path.h, root, reactive, path.path)} :
                 IF t.exc # "none" THEN Fails(path.h, path.out, t.exc)
                 ELSE IF t.triggered = <<>>
                   THEN heap' = path.h /\ output' = path.out /\ NextTriggered
                 ELSE /\ heap' = path.h
                      /\ output' = path.out \o execute_reactive_actions(t.triggered)
                      /\ pc' = "chained" /\ chained' = t.triggered /\ cti' = 1
                      /\ UNCHANGED <<ip, batch, ti>>
  /\ UNCHANGED <<root, reactive, prog, used, cls, failed, runs, clientVars, callVars>>

\* One chained action: it is executed, and nothing is checked after it
ChainedStep ==
  /\ pc = "chained"
  /\ \E r \in {execute_statement(heap, root, output, chained[cti].action)} :
       /\ trace' = Append(trace, Ran(2, chained[cti].from, chained[cti].action, r.exc))
       /\ IF r.exc # "none" THEN Fails(r.h, r.out, r.exc)
          ELSE heap' = r.h /\ output' = r.out /\ NextChained
  /\ UNCHANGED <<root, reactive, prog, used, cls, failed, runs, clientVars, callVars>>

\* (reset leaves the registered statements in place)
Reset_keeps_rules ==
  /\ pc = "idle"
  /\ used < MaxStmts
  /\ heap' = Append(heap, DictC(EmptyMap))
  /\ root' = Len(heap) + 1
  /\ output' = <<>>
  /\ prog' = <<>> /\ trace' = <<>>
  /\ used' = used + 1
  /\ failed' = FALSE
  /\ runs' = 0
  /\ ip' = 0 /\ batch' = <<>> /\ ti' = 0 /\ chained' = <<>> /\ cti' = 0
  /\ UNCHANGED <<reactive, pc, cls, clientVars, callVars>>

\* reset (of either class)
Reset ==
  /\ pc = "idle"
  /\ used < MaxStmts
  /\ heap' = clear(heap).h
  /\ root' = clear(heap).rt
  /\ reactive' = <<>>
  /\ output' = <<>>
  /\ prog' = <<>> /\ trace' = <<>>
  /\ used' = used + 1
  /\ failed' = FALSE
  /\ runs' = 0
  /\ ip' = 0 /\ batch' = <<>> /\ ti' = 0 /\ chained' = <<>> /\ cti' = 0
  /\ UNCHANGED <<pc, cls, clientVars, callVars>>

Next ==
  \/ ExecuteBegin
  \/ InterpreterStep
  \/ RegisterStep
  \/ StatementStep
  \/ TriggeredStep
  \/ ChainedStep
  \/ Reset

Spec == Init /\ [][Next]_vars

\* execute on programs of rules that write each other's targets and their own, as
\* one synchronous call: once begun, its loops keep going
CascadeStatements == {SetX1, ReactX, ReactY, ReactXMany, ReactXFails}
CascadePrograms == SeqsUpTo(CascadeStatements, MaxStmts)
ExecuteCascade == ExecuteFrom(CascadePrograms)
Running == InterpreterStep \/ RegisterStep \/ StatementStep \/ TriggeredStep \/ ChainedStep
NextCascade == ExecuteCascade \/ Running
SpecCascade == Init /\ [][NextCascade]_vars /\ WF_vars(Running)

\* execute on programs of rules with a default block, rules whose target is below
\* the path written, and a rule that chains
SetXObj == SetStatement(Path1("x"), Object(<<>>))             \* set x = {}
SetD1 == SetStatement(Path1("d"), IntLit(1))                  \* set d = 1
\* react to x when < 0 { set z = 1 } default { set d = 1 }
ReactXDefault ==
  ReactStatement(<<"x">>, <<ReactiveCondition("<", IntLit(0), <<SetZ1>>)>>, <<SetD1>>)
\* react to x default { set d = 1 }
ReactXOnlyDefault == ReactStatement(<<"x">>, <<>>, <<SetD1>>)
\* react to x.a when == 1 { set z = 1 }
ReactXA == ReactStatement(<<"x", "a">>, <<ReactiveCondition("==", IntLit(1), <<SetZ1>>)>>, <<>>)
\* react to x when != 0 { set y = 1 }
ReactXNot0 == ReactStatement(<<"x">>, <<ReactiveCondition("!=", IntLit(0), <<SetY1>>)>>, <<>>)

RuleStatements ==
  {SetX1, SetXObj, SetXA, ReactXDefault, ReactXOnlyDefault, ReactXA, ReactXNot0, ReactY}
RulePrograms == SeqsUpTo(RuleStatements, MaxStmts)
ExecuteRules == ExecuteFrom(RulePrograms)
NextRules ==
  \/ ExecuteRules
  \/ InterpreterStep
  \/ RegisterStep
  \/ StatementStep
  \/ TriggeredStep
  \/ ChainedStep
  \/ Reset
SpecRules == Init /\ [][NextRules]_vars

----------------------------------------------------------------------------
(* ReactiveInterpreter.execute as one call: what it leaves of the store, the
   registered statements and the output *)

\* for chained_trigger in chained_triggered, from its i-th action on
RECURSIVE run_chained(_, _, _, _, _)
run_chained(h, rt, out, chained_triggered, i) ==
  LET executed(r) ==
        IF r.exc # "none" THEN r
        ELSE run_chained(r.h, rt, r.out, chained_triggered, i + 1)
  IN IF i > Len(chained_triggered) THEN Done("none", h, out)
     ELSE executed(execute_statement(h, rt, out, chained_triggered[i].action))

\* for trigger in triggered, from its i-th action on
RECURSIVE run_triggered(_, _, _, _, _, _)
run_triggered(h, rt, registered, out, triggered, i) ==
  LET action == triggered[i].action
      went_on(c) ==
        IF c.exc # "none" THEN c
        ELSE run_triggered(c.h, rt, registered, c.out, triggered, i + 1)
      checked(p, t) ==
        IF t.exc # "none" THEN Done(t.exc, p.h, p.out)
        ELSE went_on(run_chained(p.h, rt, p.out \o execute_reactive_actions(t.triggered),
                                 t.triggered, 1))
      pathed(p) == checked(p, check_reactive_statements(p.h, rt, registered, p.path))
      executed(r) ==
        IF r.exc # "none" THEN r
        ELSE IF ~IsSetStatement(action)
          THEN run_triggered(r.h, rt, registered, r.out, triggered, i + 1)
        ELSE pathed(evaluate_path(r.h, rt, r.out, action.path, <<>>))
  IN IF i > Len(triggered) THEN Done("none", h, out)
     ELSE executed(execute_statement(h, rt, out, action))

\* Second pass: for statement in program.statements, from the i-th on
RECURSIVE run_statements(_, _, _, _, _, _)
run_statements(h, rt, registered, out, statements, i) ==
  LET statement == statements[i]
      fired(f) ==
        IF f.exc # "none" THEN f
        ELSE run_statements(f.h, rt, registered, f.out, statements, i + 1)
      checked(p, t) ==
        IF t.exc # "none" THEN Done(t.exc, p.h, p.out)
        ELSE fired(run_triggered(p.h, rt, registered,
                                 p.out \o execute_reactive_actions(t.triggered), t.triggered, 1))
      pathed(p) == checked(p, check_reactive_statements(p.h, rt, registered, p.path))
      executed(r) ==
        IF r.exc # "none" THEN r
        ELSE IF ~IsSetStatement(statement)
          THEN run_statements(r.h, rt, registered, r.out, statements, i + 1)
        ELSE pathed(evaluate_path(r.h, rt, r.out, statement.path, <<>>))
  IN IF i > Len(statements) THEN Done("none", h, out)
     ELSE IF statement.stmt = "ReactStatement"
       THEN run_statements(h, rt, registered, out, statements, i + 1)
     ELSE executed(execute_statement(h, rt, out, statement))

\* ReactiveInterpreter.execute(program) on the store h and the registered statements
execute(h, rt, registered, program) ==
  LET reacts == SelectSeq(program.statements, LAMBDA st : st.stmt = "ReactStatement")
      all == registered \o reacts
      returned(r) ==
        [h |-> r.h, registered |-> all,
         output |-> IF r.exc # "none" THEN Append(r.out, ErrorLine(r.exc)) ELSE r.out]
  IN returned(run_statements(h, rt, all,
                             [i \in 1..Len(reacts) |-> RegisteredLine(reacts[i].target)],
                             program.statements, 1))

\* Program(statements)
Program(statements) == [statements |-> statements]

\* A value as a client sees it: a container is its keys or items, whatever object
\* holds them ("...": deeper than any container that does not hold itself)
RECURSIVE Seen(_, _, _)
Seen(h, v, fuel) ==
  IF v.t # "ref" THEN <<v.t, v.n, v.s>>
  ELSE IF fuel = 0 THEN <<"...">>
  ELSE IF h[v.n].tag = "dict"
    THEN <<"dict", [k \in DOMAIN h[v.n].m |-> Seen(h, h[v.n].m[k], fuel - 1)]>>
  ELSE <<"list", [i \in 1..Len(h[v.n].e) |-> Seen(h, h[v.n].e[i], fuel - 1)]>>

\* interpreter.get_state(), as a client sees it down to a depth
SeenState(h, rt, depth) == Seen(h, RefV(rt), depth)

----------------------------------------------------------------------------
(* execute on programs whose values are identifiers, alone or inside a literal *)

SetYX == SetStatement(Path1("y"), Identifier("x"))            \* set y = x
\* set y = [x, w]
SetYArray == SetStatement(Path1("y"), Array(<<Identifier("x"), Identifier("w")>>))
\* set y = {k: x}
SetYObject == SetStatement(Path1("y"), Object(<<KeyValuePair("k", Identifier("x"))>>))
\* state { k: x }
StateKX == StateDeclaration(<<KeyValuePair("k", Identifier("x"))>>)

ValueStatements == {SetX1, SetXObj, SetYX, SetYArray, SetYObject, StateKX}
ValuePrograms == SeqsUpTo(ValueStatements, MaxStmts)
ExecuteValues == ExecuteFrom(ValuePrograms)
NextValues == ExecuteValues \/ InterpreterStep \/ RegisterStep \/ StatementStep
SpecValues == Init /\ [][NextValues]_vars

----------------------------------------------------------------------------
(* execute on programs that store a container under a second key by its name, and
   write below either key *)

SetYU == SetStatement(Path1("y"), Identifier("u"))            \* set y = u
SetYA == SetStatement(Path2("y", "a"), IntLit(1))             \* set y.a = 1
SetU0 == SetStatement(Path2("u", "0"), IntLit(2))             \* set u.0 = 2
SetY0 == SetStatement(Path2("y", "0"), IntLit(2))             \* set y.0 = 2

AliasStatements == {SetX1, SetXObj, SetU, SetYX, SetYU, SetXA, SetYA, SetU0, SetY0}
AliasPrograms == SeqsUpTo(AliasStatements, MaxStmts)
ExecuteAlias == ExecuteFrom(AliasPrograms)
NextAlias == ExecuteAlias \/ InterpreterStep \/ RegisterStep \/ StatementStep
SpecAlias == Init /\ [][NextAlias]_vars

----------------------------------------------------------------------------
(* execute on programs of a chain of three rules, of a rule on a key that a state
   declaration writes, and of a rule on an index that its array does not have *)

MaxChainStmts == 4   \* statements handed to execute, over all its calls

SetW1 == SetStatement(Path1("w"), IntLit(1))                  \* set w = 1
StateX1 == StateDeclaration(<<KeyValuePair("x", IntLit(1))>>) \* state { x: 1 }
\* react to y when == 1 { set z = 1 }
ReactYZ == ReactStatement(<<"y">>, <<ReactiveCondition("==", IntLit(1), <<SetZ1>>)>>, <<>>)
\* react to z when == 1 { set w = 1 }
ReactZW == ReactStatement(<<"z">>, <<ReactiveCondition("==", IntLit(1), <<SetW1>>)>>, <<>>)
\* react to u.5 when == 1 { set y = 1 }
ReactU5 == ReactStatement(<<"u", "5">>, <<ReactiveCondition("==", IntLit(1), <<SetY1>>)>>, <<>>)

ChainStatements == {SetX1, SetU, StateX1, ReactX, ReactYZ, ReactZW, ReactU5}
ChainPrograms == SeqsUpTo(ChainStatements, MaxChainStmts)
ExecuteChain == ExecuteUpTo(ChainPrograms, MaxChainStmts)
NextChain ==
  \/ ExecuteChain
  \/ InterpreterStep
  \/ RegisterStep
  \/ StatementStep
  \/ TriggeredStep
  \/ ChainedStep
SpecChain == Init /\ [][NextChain]_vars

----------------------------------------------------------------------------
(* An interpreter whose client also calls the StateManager between two calls of
   execute or reset: set, delete, clear and set_state *)

ClientPaths == {<<>>, <<"x">>, <<"x", "a">>}
ClientStatements == {SetX1, SetXA, StateXY, ReactX}
ClientPrograms == SeqsUpTo(ClientStatements, MaxStmts)
ExecuteClient == ExecuteFrom(ClientPrograms)

\* A call the client makes, counted with the statements: what it leaves
ClientStep(h, rt, call) ==
  /\ pc = "idle"
  /\ used < MaxStmts
  /\ heap' = h
  /\ root' = rt
  /\ last' = call
  /\ used' = used + 1
  /\ UNCHANGED <<reactive, calls, callVars, output, prog, pc, loopVars, trace, cls,
                 failed, runs>>

\* interpreter.state_manager.set(path, <a number or a new container>)
ClientSet == \E path \in ClientPaths, kind \in ArgKinds :
  \E arg \in {Arg(heap, kind)} :
  \E r \in {set(arg.h, root, path, arg.v)} :
    ClientStep(r.h, root,
               [NoCall EXCEPT !.op = "set", !.path = path, !.value = arg.v, !.exc = r.exc])

\* interpreter.state_manager.delete(path)
ClientDelete == \E path \in ClientPaths :
  \E r \in {delete(heap, root, path)} :
    ClientStep(r.h, root, [NoCall EXCEPT !.op = "delete", !.path = path, !.exc = r.exc])

\* (mutant) clear empties the registry too
ClientClear_drops_rules ==
  /\ reactive' = <<>>
  /\ \E r \in {clear(heap)} :
       /\ pc = "idle" /\ used < MaxStmts
       /\ heap' = r.h /\ root' = r.rt /\ last' = [NoCall EXCEPT !.op = "clear"]
       /\ used' = used + 1
  /\ UNCHANGED <<calls, callVars, output, prog, pc, loopVars, trace, cls, failed, runs>>

\* interpreter.state_manager.clear()
ClientClear ==
  \E r \in {clear(heap)} : ClientStep(r.h, r.rt, [NoCall EXCEPT !.op = "clear"])

\* interpreter.state_manager.set_state(d), d a dict the client holds: the state
\* itself, a dict inside it, or one that was the state or inside it before
ClientSetState == \E held \in {a \in 1..Len(heap) : heap[a].tag = "dict"} :
  \E r \in {set_state(heap, RefV(held))} :
    ClientStep(r.h, r.rt, [NoCall EXCEPT !.op = "set_state", !.value = RefV(held)])

NextClient ==
  \/ ExecuteClient
  \/ InterpreterStep
  \/ RegisterStep
  \/ StatementStep
  \/ TriggeredStep
  \/ Reset
  \/ ClientSet
  \/ ClientDelete
  \/ ClientClear
  \/ ClientSetState
SpecClient == Init /\ [][NextClient]_vars

----------------------------------------------------------------------------
(* execute on programs of rules whose actions write the rule's own target *)

\* react to x when == 1 { set x = 2  set y = 1 }
ReactXOnce ==
  ReactStatement(<<"x">>, <<ReactiveCondition("==", IntLit(1), <<SetX2, SetY1>>)>>, <<>>)
BatchStatements == {SetX1, SetX0, ReactXOnce, ReactXMany, ReactX}
BatchPrograms == SeqsUpTo(BatchStatements, MaxStmts)
ExecuteBatch == ExecuteFrom(BatchPrograms)
NextBatch ==
  \/ ExecuteBatch
  \/ InterpreterStep
  \/ RegisterStep
  \/ StatementStep
  \/ TriggeredStep
  \/ ChainedStep
SpecBatch == Init /\ [][NextBatch]_vars

----------------------------------------------------------------------------
(* execute called again and again on one program, with no reset between *)

MaxRepeatStmts == 6  \* statements handed to execute, over all its calls

RepeatStatements == {SetX1, SetX0, ReactX, ReactXNot0}
RepeatPrograms == SeqsUpTo(RepeatStatements, MaxStmts)
\* interpreter.execute(program): any program the first time, the same one after
ExecuteRepeat ==
  ExecuteUpTo(IF runs = 0 THEN RepeatPrograms ELSE {prog}, MaxRepeatStmts)
NextRepeat ==
  \/ ExecuteRepeat
  \/ InterpreterStep
  \/ RegisterStep
  \/ StatementStep
  \/ TriggeredStep
SpecRepeat == Init /\ [][NextRepeat]_vars

----------------------------------------------------------------------------
(* An interpreter whose client also calls check_reactive_statements of its
   ReactiveEngine between two calls of execute *)

MaxCheckOps == 4     \* statements handed to execute, and calls of the client

\* react to x when > y { set y = 1 }
ReactXOverY ==
  ReactStatement(<<"x">>, <<ReactiveCondition(">", Identifier("y"), <<SetY1>>)>>, <<>>)
CheckStatements == {SetX1, SetX2, StateXY, ReactX, ReactXOverY}
CheckPrograms == SeqsUpTo(CheckStatements, MaxCheckOps)
ExecuteCheck == ExecuteUpTo(CheckPrograms, MaxCheckOps)
CheckPaths == {<<>>, <<"x">>, <<"x", "a">>}

\* What the call leaves in lastCheck (again: the call before it was a check of
\* the same path, with nothing between the two)
Checked(changed_path, r) ==
  [path |-> changed_path, exc |-> r.exc, triggered |-> r.triggered, at |-> used + 1,
   again |-> (lastCheck.at = used /\ lastCheck.path = changed_path)]

\* (mutant) a rule that fires is taken out of the registry
ClientCheck_consumes == \E changed_path \in CheckPaths :
  \E r \in {check_reactive_statements(heap, root, reactive, changed_path)} :
    /\ pc = "idle" /\ cls = "ReactiveInterpreter"
    /\ used < MaxCheckOps
    /\ lastCheck' = Checked(changed_path, r)
    /\ used' = used + 1
    /\ reactive' =
         SelectSeq(reactive,
                   LAMBDA rule : \A k \in 1..Len(r.triggered) :
                                   reactive[r.triggered[k].from[1]] # rule)
    /\ UNCHANGED <<heap, root, clientVars, matchVars, condVars, snapshot, frontVars,
                   output, prog, pc, loopVars, trace, cls, failed, runs>>

\* interpreter.reactive_engine.check_reactive_statements(changed_path)
ClientCheck == \E changed_path \in CheckPaths :
  \E r \in {check_reactive_statements(heap, root, reactive, changed_path)} :
    /\ pc = "idle" /\ cls = "ReactiveInterpreter"
    /\ used < MaxCheckOps
    /\ lastCheck' = Checked(changed_path, r)
    /\ used' = used + 1
    /\ UNCHANGED <<storeVars, clientVars, matchVars, condVars, snapshot, frontVars,
                   output, prog, pc, loopVars, trace, cls, failed, runs>>

NextCheck ==
  \/ ExecuteCheck
  \/ InterpreterStep
  \/ RegisterStep
  \/ StatementStep
  \/ TriggeredStep
  \/ ClientCheck
SpecCheck == Init /\ [][NextCheck]_vars

----------------------------------------------------------------------------
(* Lexer(source).tokenize(), one iteration of its loop at a time *)

MaxSource == 4       \* the characters of a source handed to the Lexer
SourceChars == {"t", "o", "1", ".", "\"", "=", " ", "\n", "@"}
Sources == SeqsUpTo(SourceChars, MaxSource)

InitLexer ==
  /\ heap = <<DictC(EmptyMap)>>
  /\ root = 1
  /\ reactive = <<>>
  /\ last = NoCall
  /\ calls = 0
  /\ mR = <<>> /\ mP = <<>> /\ mRes = "none"
  /\ output = <<>> /\ prog = <<>> /\ pc = "idle" /\ trace = <<>> /\ used = 0
  /\ ip = 0 /\ batch = <<>> /\ ti = 0 /\ chained = <<>> /\ cti = 0
  /\ cls = "ReactiveInterpreter" /\ failed = FALSE /\ runs = 0
  /\ ecCond = NoCondition /\ ecTarget = NoneV /\ ecResult = "none" /\ snapshot = 0
  /\ parser = NoParser /\ lastCheck = NoCheck
  /\ \E source \in Sources :
       lexer = [source |-> source, position |-> 0, line |-> 1, column |-> 1,
                tokens |-> <<>>, state |-> "scanning", error |-> NoError]

lexerFrame ==
  <<storeVars, clientVars, matchVars, condVars, snapshot, interpVars, parser, lastCheck>>

\* while self.position < len(self.source): one call of _next_token, and the token
\* is appended unless it is whitespace
TokenizeStep ==
  /\ lexer.state = "scanning"
  /\ lexer.position < Len(lexer.source)
  /\ \E r \in {next_token(lexer)} :
       lexer' = IF r.exc # "none" THEN [r.lexer EXCEPT !.state = "raised"]
                ELSE IF r.token.type # "WHITESPACE"
                  THEN [r.lexer EXCEPT !.tokens = Append(@, r.token)]
                ELSE r.lexer
  /\ UNCHANGED lexerFrame

\* The loop has ended: the EOF token is appended and the tokens are returned
TokenizeEnd ==
  /\ lexer.state = "scanning"
  /\ lexer.position >= Len(lexer.source)
  /\ lexer' = [lexer EXCEPT !.tokens = Append(@, Token("EOF", <<>>, lexer.line, lexer.column)),
                            !.state = "returned"]
  /\ UNCHANGED lexerFrame

NextLexer == TokenizeStep \/ TokenizeEnd
SpecLexer == InitLexer /\ [][NextLexer]_vars

----------------------------------------------------------------------------
(* Parser(tokens).parse(), one iteration of its loop at a time *)

MaxTokens == 4       \* the tokens before EOF of a stream made of any tokens
MaxPairs == 2        \* the pairs of an object or of a state declaration

\* The tokens a stream is made of, each with the text the Lexer gives it
TokenKinds ==
  { <<"STATE", "state">>, <<"SET", "set">>, <<"IDENTIFIER", "a">>, <<"NUMBER", "1">>,
    <<"COLON", ":">>, <<"COMMA", ",">>, <<"EQUALS", "=">>,
    <<"LEFT_BRACE", "{">>, <<"RIGHT_BRACE", "}">>,
    <<"LEFT_BRACKET", "[">>, <<"RIGHT_BRACKET", "]">> }
Kind(type) == CHOOSE kind \in TokenKinds : kind[1] = type

\* The tokens of the kinds, in a line, and the EOF token after them
TokensOf(kinds) ==
  [i \in 1..(Len(kinds) + 1) |->
     IF i <= Len(kinds) THEN Token(kinds[i][1], kinds[i][2], 1, i) ELSE Token("EOF", "", 1, i)]

\* State declarations that lack nothing but values: state { pair, ... } where a
\* pair is a key, a colon and a value or nothing, and a value is a number, an object
\* of such pairs with numbers or nothing, or an array of one such object or number
\* or of a comma with no element before it
Joined(lists) ==
  LET RECURSIVE join(_)
      join(rest) == IF rest = <<>> THEN <<>>
                    ELSE IF Len(rest) = 1 THEN rest[1]
                    ELSE rest[1] \o <<Kind("COMMA")>> \o join(Tail(rest))
  IN join(lists)
PairsOf(values) ==
  {Joined([i \in 1..Len(chosen) |-> <<Kind("IDENTIFIER"), Kind("COLON")>> \o chosen[i]]) :
     chosen \in SeqsUpTo(values, MaxPairs)}
ObjectsOf(values) ==
  {<<Kind("LEFT_BRACE")>> \o pairs \o <<Kind("RIGHT_BRACE")>> : pairs \in PairsOf(values)}
ArraysOf(values) ==
  {<<Kind("LEFT_BRACKET")>> \o value \o <<Kind("RIGHT_BRACKET")>> : value \in values}
InnerValues == {<<>>, <<Kind("NUMBER")>>}
OuterValues ==
  InnerValues \cup ObjectsOf(InnerValues)
    \cup ArraysOf(ObjectsOf(InnerValues) \cup {<<Kind("NUMBER")>>, <<Kind("COMMA")>>})
Declarations ==
  {<<Kind("STATE"), Kind("LEFT_BRACE")>> \o pairs \o <<Kind("RIGHT_BRACE")>> :
     pairs \in PairsOf(OuterValues)}

\* The kinds a stream of any tokens is made of: a comma and a closing bracket
\* are, outside of the declarations above, two more tokens that no rule expects
StreamKinds == TokenKinds \ {Kind("COMMA"), Kind("RIGHT_BRACKET")}

TokenStreams ==
  {TokensOf(kinds) : kinds \in SeqsUpTo(StreamKinds, MaxTokens) \cup Declarations}

InitParser ==
  /\ heap = <<DictC(EmptyMap)>>
  /\ root = 1
  /\ reactive = <<>>
  /\ last = NoCall
  /\ calls = 0
  /\ mR = <<>> /\ mP = <<>> /\ mRes = "none"
  /\ output = <<>> /\ prog = <<>> /\ pc = "idle" /\ trace = <<>> /\ used = 0
  /\ ip = 0 /\ batch = <<>> /\ ti = 0 /\ chained = <<>> /\ cti = 0
  /\ cls = "ReactiveInterpreter" /\ failed = FALSE /\ runs = 0
  /\ ecCond = NoCondition /\ ecTarget = NoneV /\ ecResult = "none" /\ snapshot = 0
  /\ lexer = NoLexer /\ lastCheck = NoCheck
  /\ \E tokens \in TokenStreams :
       parser = [tokens |-> tokens, current |-> 0, statements |-> <<>>,
                 state |-> "parsing", error |-> NoError]

parserFrame ==
  <<storeVars, clientVars, matchVars, condVars, snapshot, interpVars, lexer, lastCheck>>

\* while not self._is_at_end(): one call of _parse_statement, and the statement is
\* appended unless it is None
ParseStep ==
  /\ parser.state = "parsing"
  /\ ~is_at_end(parser.tokens, parser.current)
  /\ \E r \in {parse_statement(parser.tokens, parser.current)} :
       parser' = IF r.exc # "none"
                   THEN [parser EXCEPT !.current = r.current, !.state = "raised",
                                       !.error = r.error]
                 ELSE IF r.node # NoneNode
                   THEN [parser EXCEPT !.current = r.current,
                                       !.statements = Append(@, r.node)]
                 ELSE [parser EXCEPT !.current = r.current]
  /\ UNCHANGED parserFrame

\* The loop has ended: return Program(statements)
ParseEnd ==
  /\ parser.state = "parsing"
  /\ is_at_end(parser.tokens, parser.current)
  /\ parser' = [parser EXCEPT !.state = "returned"]
  /\ UNCHANGED parserFrame

NextParser == ParseStep \/ ParseEnd
SpecParser == InitParser /\ [][NextParser]_vars

\* A client that has a Parser made of a stream of any tokens and calls parse on
\* it once: once called, parse is one call that nothing interrupts
MaxLoopTokens == 3   \* the tokens before EOF of a stream parse is called on
LoopStreams == {TokensOf(kinds) : kinds \in SeqsUpTo(StreamKinds, MaxLoopTokens)}
InitParse ==
  /\ heap = <<DictC(EmptyMap)>>
  /\ root = 1
  /\ reactive = <<>>
  /\ last = NoCall
  /\ calls = 0
  /\ mR = <<>> /\ mP = <<>> /\ mRes = "none"
  /\ output = <<>> /\ prog = <<>> /\ pc = "idle" /\ trace = <<>> /\ used = 0
  /\ ip = 0 /\ batch = <<>> /\ ti = 0 /\ chained = <<>> /\ cti = 0
  /\ cls = "ReactiveInterpreter" /\ failed = FALSE /\ runs = 0
  /\ ecCond = NoCondition /\ ecTarget = NoneV /\ ecResult = "none" /\ snapshot = 0
  /\ lexer = NoLexer /\ lastCheck = NoCheck
  /\ parser = NoParser
\* Parser(tokens).parse(): statements = [], and the loop begins
ParseCall ==
  /\ parser = NoParser
  /\ \E tokens \in LoopStreams :
       parser' = [tokens |-> tokens, current |-> 0, statements |-> <<>>,
                  state |-> "parsing", error |-> NoError]
  /\ UNCHANGED parserFrame
NextParse == ParseCall \/ ParseStep \/ ParseEnd
SpecParse == InitParse /\ [][NextParse]_vars /\ WF_vars(ParseStep \/ ParseEnd)

----------------------------------------------------------------------------
(* Properties of _paths_match *)

IsStrictPrefix(p, r) == Len(p) < Len(r) /\ \A i \in 1..Len(p) : p[i] = r[i]

\* C1: _paths_match(R, P) is true iff R = P or P is a strict prefix of R; a rule on
\* [user, age] is affected by a change at [user], a rule on [user] is not affected
\* by a change at [user, age].
C1_PathsMatchIffEqualOrAbove ==
  mRes # "none" =>
    /\ (mRes = "True") <=> (mR = mP \/ IsStrictPrefix(mP, mR))
    /\ (mR = <<"user", "age">> /\ mP = <<"user">>) => mRes = "True"
    /\ (mR = <<"user">> /\ mP = <<"user", "age">>) => mRes = "False"

C1_Witness == mR = <<"user">> /\ mP = <<"user", "age">> /\ mRes = "False"

----------------------------------------------------------------------------
(* Properties of StateManager.get / set / delete *)

\* C2: after a set(path, v) that succeeded on a non-empty path, get(path) returns v.
C2_SetThenGet ==
  (last.op = "set" /\ last.exc = "none") =>
    get(heap, root, last.path) = Return(last.value)

C7_FailedSetKeepsStore ==
  (last.op = "set" /\ last.exc # "none") => last.kept

----------------------------------------------------------------------------
(* Properties of execute *)

StoreErrors == {"KeyError", "IndexError", "TypeError"}

\* The place in trace of the last top-level statement (0: there is none)
LastTop ==
  LET tops == {i \in 1..Len(trace) : trace[i].level = 0} IN
  IF tops = {} THEN 0 ELSE CHOOSE i \in tops : \A j \in tops : j <= i

\* The actions run since the last top-level statement, and the first-level ones
Fired == SubSeq(trace, LastTop + 1, Len(trace))
FirstLevel(entry) == entry.level = 1
FiredFirstLevel == SelectSeq(Fired, FirstLevel)

\* The path a set statement writes (its segments are strings)
PathOf(statement) == [i \in 1..Len(statement.path) |-> statement.path[i].s]

\* A rule on target is affected by a write of P: target is P or below P
Affects(P, target) == target = P \/ IsStrictPrefix(P, target)

\* The places <<rule, condition, action>> of the registered actions
Places(registered) ==
  UNION { UNION { {<<ri, c, ai>> : ai \in 1..Len(registered[ri].conditions[c].actions)} :
                  c \in 1..Len(registered[ri].conditions) } :
          ri \in 1..Len(registered) }

\* The places of the actions whose rule is affected by a write of P and whose
\* condition is true of the rule's target in the store h
TrueActions(h, rt, registered, P) ==
  { pl \in Places(registered) :
      /\ Affects(P, registered[pl[1]].target)
      /\ get(h, rt, registered[pl[1]].target).exc = "none"
      /\ evaluate_condition(h, rt, registered[pl[1]].conditions[pl[2]],
                            get(h, rt, registered[pl[1]].target).v) }

\* Registration order, then condition order, then action order
Before(a, b) ==
  \/ a[1] < b[1]
  \/ a[1] = b[1] /\ a[2] < b[2]
  \/ a[1] = b[1] /\ a[2] = b[2] /\ a[3] < b[3]

\* A top-level set has just written its path, and the check after it has returned
JustChecked ==
  /\ cls = "ReactiveInterpreter"
  /\ ~HasError(output)
  /\ LastTop > 0 /\ LastTop = Len(trace)
  /\ IsSetStatement(trace[LastTop].statement)
  /\ trace[LastTop].exc = "none"

\* What the first-level check returned is exactly the actions of the affected
\* rules whose condition is true, each once
FiredExactly ==
  JustChecked =>
    /\ {batch[k].from : k \in 1..Len(batch)} =
         TrueActions(heap, root, reactive, PathOf(trace[LastTop].statement))
    /\ \A j, k \in 1..Len(batch) : batch[j].from = batch[k].from => j = k
    /\ \A k \in 1..Len(batch) :
         batch[k].action =
           reactive[batch[k].from[1]].conditions[batch[k].from[2]].actions[batch[k].from[3]]

\* C4: when a top-level set has written P, the actions of exactly the rules on P or
\* below P whose condition is true after the write have been executed before execute
\* returns.
C4_FiredActionsAreExecuted ==
  /\ FiredExactly
  /\ pc = "idle" =>
       \A k \in 1..Len(batch) : \E i \in 1..Len(Fired) :
         Fired[i].level = 1 /\ Fired[i].place = batch[k].from /\ Fired[i].exc = "none"

\* The rules of C5 are registered, and no registered action fails
CascadeRules ==
  /\ cls = "ReactiveInterpreter"
  /\ \E a \in 1..Len(reactive) : reactive[a] = ReactX
  /\ \E b \in 1..Len(reactive) : reactive[b] = ReactY
  /\ \A r \in 1..Len(reactive) : reactive[r] # ReactXFails

\* C5: with rule A (x > 0: set y = 1) and rule B (y == 1: set z = 1 ...) registered,
\* a top-level set x = 1 is followed, before execute returns, by A's set of y and then,
\* chained, by B's set of z; y and z are then in the store.
C5_TwoLevelCascade ==
  (pc = "idle" /\ CascadeRules) =>
    \A i \in 1..Len(trace) :
      (trace[i].level = 0 /\ trace[i].statement = SetX1 /\ trace[i].exc = "none") =>
        /\ \E j, k \in (i + 1)..Len(trace) :
             /\ j < k
             /\ \A m \in (i + 1)..k : trace[m].level # 0
             /\ trace[j] = Ran(1, trace[j].place, SetY1, "none")
             /\ reactive[trace[j].place[1]] = ReactX
             /\ trace[k] = Ran(2, trace[k].place, SetZ1, "none")
             /\ reactive[trace[k].place[1]] = ReactY
        /\ get(heap, root, <<"y">>) = Return(IntV(1))
        /\ get(heap, root, <<"z">>) = Return(IntV(1))

C5_Witness ==
  /\ pc = "idle" /\ CascadeRules
  /\ \E i \in 1..Len(trace) :
       trace[i].level = 0 /\ trace[i].statement = SetX1 /\ trace[i].exc = "none"

\* C6: a set statement whose StateManager.set fails with KeyError, IndexError or
\* TypeError never aborts the program: the error does not leave the statement (it
\* is a warning line), and execute goes on to the statements after it.
C6_FailedSetDoesNotAbort ==
  \A i \in 1..Len(trace) :
    IsSetStatement(trace[i].statement) => trace[i].exc \notin StoreErrors

\* The statements execute runs itself, in source order, and the ones it has run
Runnable ==
  SelectSeq([i \in 1..Len(prog) |-> i],
            LAMBDA i : cls = "Interpreter" \/ prog[i].stmt # "ReactStatement")
TopLevel(entry) == entry.level = 0
RanTop == [i \in 1..Len(SelectSeq(trace, TopLevel)) |-> SelectSeq(trace, TopLevel)[i].place[1]]

\* C8: when a statement raises, execute appends one error line, the last of its
\* output, and returns; nothing more is executed or written until the next call;
\* the execute after one that failed runs each of its statements in order.
C8_ErrorEndsOnlyThisExecute ==
  /\ [](HasError(output) =>
          /\ pc = "idle"
          /\ output[Len(output)].kind = "exception"
          /\ \A i \in 1..(Len(output) - 1) : output[i].kind # "exception")
  /\ [][HasError(output) => (output' = <<>> \/ (trace' = trace /\ heap' = heap))]_vars
  /\ []((failed /\ pc = "idle" /\ ~HasError(output)) => RanTop = Runnable)

C8_Witness ==
  failed /\ pc = "idle" /\ ~HasError(output) /\ Len(RanTop) = 2 /\ RanTop = Runnable

\* The number of registered actions
ActionCount == Cardinality(Places(reactive))

\* C9: execute, once called, returns; between two top-level statements no more
\* actions run than A + A * A, A the number of registered actions, whatever the
\* rules write (each other's targets, or their own).
C9_CascadeTerminates ==
  /\ (pc # "idle") ~> (pc = "idle")
  /\ [](Len(Fired) <= ActionCount + ActionCount * ActionCount)

\* Rules that trigger each other have run and execute has returned: an action of the
\* rule on y, fired by an action of the rule on x, has written x
C9_Witness ==
  /\ pc = "idle"
  /\ \E i \in 1..Len(Fired) :
       /\ Fired[i].level = 2
       /\ reactive[Fired[i].place[1]] = ReactY
       /\ Fired[i].statement = SetX2

\* C10: the check after a top-level set returns the actions of every condition that
\* is true of an affected rule's target, in registration order, then condition
\* order, then action order; the first-level actions are executed in that order.
C10_EveryTrueConditionInOrder ==
  /\ FiredExactly
  /\ JustChecked => \A j, k \in 1..Len(batch) : j < k => Before(batch[j].from, batch[k].from)
  /\ (pc \in {"triggered", "chained"}) =>
       /\ Len(FiredFirstLevel) = (IF pc = "triggered" THEN ti - 1 ELSE ti)
       /\ \A k \in 1..Len(FiredFirstLevel) :
            /\ FiredFirstLevel[k].place = batch[k].from
            /\ FiredFirstLevel[k].statement = batch[k].action

\* Two conditions of one rule are true at once, and the actions of both have run
C10_Witness ==
  /\ pc = "idle" /\ ~HasError(output)
  /\ \E i, j \in 1..Len(FiredFirstLevel) :
       /\ FiredFirstLevel[i].place[1] = FiredFirstLevel[j].place[1]
       /\ FiredFirstLevel[i].place[2] = 1
       /\ FiredFirstLevel[j].place[2] = 2

----------------------------------------------------------------------------
(* Properties of the check: default blocks, and targets that do not resolve *)

\* The actions of the default blocks of the registered rules
DefaultActions ==
  UNION { {reactive[ri].default[ai] : ai \in 1..Len(reactive[ri].default)} :
          ri \in 1..Len(reactive) }

\* A top-level set has just written its path and the check after it has been made
\* (it returned, or it raised)
AfterTopSet ==
  /\ cls = "ReactiveInterpreter"
  /\ LastTop > 0 /\ LastTop = Len(trace)
  /\ IsSetStatement(trace[LastTop].statement)
  /\ trace[LastTop].exc = "none"

\* The registered rules a write of P affects
Affected(P) == {ri \in 1..Len(reactive) : Affects(P, reactive[ri].target)}

\* C11: no action of a default block is returned by the check or executed, whatever
\* the store and the path written; a rule with only a default block fires nothing.
C11_DefaultActionsNeverFire ==
  /\ \A k \in 1..Len(batch) : batch[k].action \notin DefaultActions
  /\ \A k \in 1..Len(chained) : chained[k].action \notin DefaultActions
  /\ \A i \in 1..Len(trace) : trace[i].level > 0 => trace[i].statement \notin DefaultActions
  /\ get(heap, root, <<"d">>).exc = "KeyError"
  /\ (AfterTopSet /\ ~HasError(output)) =>
       \A k \in 1..Len(batch) : reactive[batch[k].from[1]].conditions # <<>>

\* x has been set with both rules that have a default block registered, no condition
\* of theirs true, and execute has returned with nothing fired
C11_Witness ==
  /\ pc = "idle" /\ ~HasError(output)
  /\ \E a, b \in 1..Len(reactive) :
       reactive[a] = ReactXOnlyDefault /\ reactive[b] = ReactXDefault
  /\ trace = <<Ran(0, <<3>>, SetX1, "none")>>

\* C12: an affected rule whose target does not resolve (KeyError) is skipped: the
\* check does not raise for it, returns no action of it, and returns the actions of
\* the other affected rules.
C12_UnresolvedTargetIsSkipped ==
  AfterTopSet =>
    LET P == PathOf(trace[LastTop].statement)
        unresolved == {ri \in Affected(P) : get(heap, root, reactive[ri].target).exc = "KeyError"}
    IN /\ (\A ri \in Affected(P) :
             get(heap, root, reactive[ri].target).exc \in {"none", "KeyError"})
            => ~HasError(output)
       /\ ~HasError(output) =>
            /\ \A k \in 1..Len(batch) : batch[k].from[1] \notin unresolved
            /\ {batch[k].from : k \in 1..Len(batch)} = TrueActions(heap, root, reactive, P)

\* set x = {} with a rule on x.a (a missing key) and a rule on x registered: the
\* rule on x has fired
C12_Witness ==
  /\ AfterTopSet /\ ~HasError(output)
  /\ trace[LastTop].statement = SetXObj
  /\ \E a \in 1..Len(reactive) : reactive[a] = ReactXA
  /\ \E k \in 1..Len(batch) : reactive[batch[k].from[1]] = ReactXNot0

----------------------------------------------------------------------------
(* Properties of evaluate_condition *)

Ordering == {">", "<", ">=", "<="}

\* The condition value of the call made
ConditionValue == evaluate_expression(heap, root, ecCond.value)

\* C13: evaluate_condition returns a boolean for every operator string, target value
\* and condition value, and False when the comparison itself raises (a str ordered
\* against an int, None against an int, two lists that never end).
C13_ConditionNeverRaises ==
  ecResult # "none" =>
    /\ ecResult \in {"True", "False"}
    /\ try_condition(heap, root, ecCond, ecTarget) \notin {"True", "False"} => ecResult = "False"
    /\ (/\ ecCond.operator \in Ordering
        /\ ecTarget \in {StrV("a"), NoneV}
        /\ ecCond.value = IntLit(1)) => ecResult = "False"

\* The comparison of the two lists that hold themselves has been made
C13_Witness ==
  /\ ecResult = "False"
  /\ ecCond.operator = "=="
  /\ ecTarget = get(heap, root, <<"ra">>).v
  /\ ecCond.value = Identifier("rb")

\* C14: a condition whose value is an identifier that is not a top-level key is
\* False, for each of the six operators and every target value.
C14_MissingIdentifierIsFalse ==
  (/\ ecResult # "none"
   /\ ecCond.operator \in Operators
   /\ ecCond.value = Identifier("missing")) => ecResult = "False"

\* C15: on integers v and c the six operators give v = c, v # c, v > c, v < c,
\* v >= c, v <= c, and any other operator string gives v = c.
C15_OperatorTable ==
  (/\ ecResult # "none"
   /\ ecTarget.t = "int"
   /\ ecCond.value.node = "Literal"
   /\ ecCond.value.value.t = "int") =>
    LET v == ecTarget.n
        c == ecCond.value.value.n
        op == ecCond.operator
    IN (ecResult = "True") <=>
         CASE op = "==" -> v = c
           [] op = "!=" -> v # c
           [] op = ">" -> v > c
           [] op = "<" -> v < c
           [] op = ">=" -> v >= c
           [] op = "<=" -> v <= c
           [] OTHER -> v = c

\* An operator string that is none of the six, on two equal integers
C15_Witness ==
  /\ ecResult = "True"
  /\ ecCond.operator = "equals"
  /\ ecTarget = IntV(MaxInt)
  /\ ecCond.value = IntLit(MaxInt)

\* The tag of a value (node: an AST node, which is no value of the language)
Tag(h, v) ==
  CASE v.t = "none" -> "Null"
    [] v.t = "bool" -> "Bool"
    [] v.t = "int" -> "Integer"
    [] v.t = "float" -> "Float"
    [] v.t = "str" -> "String"
    [] v.t = "ref" -> IF h[v.n].tag = "dict" THEN "Object" ELSE "Array"
    [] OTHER -> "node"

\* C16: when the target value and the condition value have different tags, == is
\* False and each of > < >= <= is False, for every pair of tags.
C16_CrossTagIsFalse ==
  (/\ ecResult # "none"
   /\ Tag(heap, ConditionValue) # "node"
   /\ Tag(heap, ecTarget) # Tag(heap, ConditionValue)
   /\ ecCond.operator \in Ordering \cup {"=="}) => ecResult = "False"

----------------------------------------------------------------------------
(* Properties of the two passes of execute, and of reset *)

IsReact(statement) == statement.stmt = "ReactStatement"

\* The react statements of the program being executed, in source order
Reacts == SelectSeq(prog, IsReact)

\* C17: every react statement of the program is registered, with one line each,
\* before any other statement of it is executed: the registration lines are the first
\* lines of the output, and a rule written after a set fires for that set.
C17_TwoPasses ==
  cls = "ReactiveInterpreter" =>
    /\ pc = "pass1" =>
         /\ trace = <<>>
         /\ \A i \in 1..Len(output) : output[i].kind = "registered"
    /\ (pc \in {"pass2", "triggered", "chained"} \/ (pc = "idle" /\ prog # <<>>)) =>
         /\ Len(reactive) >= Len(Reacts)
         /\ SubSeq(reactive, Len(reactive) - Len(Reacts) + 1, Len(reactive)) = Reacts
         /\ Len(output) >= Len(Reacts)
         /\ \A i \in 1..Len(Reacts) : output[i] = RegisteredLine(Reacts[i].target)
         /\ \A i \in (Len(Reacts) + 1)..Len(output) : output[i].kind # "registered"
    /\ (/\ AfterTopSet /\ ~HasError(output)
        /\ trace[LastTop].statement = SetX1
        /\ \E j \in (trace[LastTop].place[1] + 1)..Len(prog) : prog[j] = ReactX) =>
         \E k \in 1..Len(batch) :
           batch[k].action = SetY1 /\ reactive[batch[k].from[1]] = ReactX

\* set x = 1 is written before the rule on x, and the rule has fired for it
C17_Witness ==
  /\ AfterTopSet /\ ~HasError(output)
  /\ prog = <<SetX1, ReactX>>
  /\ batch # <<>>

\* The kinds of the lines of an output
Kinds(out) == [i \in 1..Len(out) |-> out[i].kind]

\* What execute of the program leaves on an interpreter just constructed
OnNew == execute(<<DictC(EmptyMap)>>, 1, <<>>, Program(prog))

\* C18: after reset, whatever was executed before, the store is {}, no statement is
\* registered and the output is empty; the execute that follows leaves what it
\* leaves on a new interpreter: the same state, the same registered statements, the
\* same lines.
C18_ResetIsLikeNew ==
  cls = "ReactiveInterpreter" =>
    /\ (runs = 0 /\ pc = "idle") =>
         /\ heap[root] = DictC(EmptyMap)
         /\ reactive = <<>>
         /\ output = <<>>
    /\ (runs = 1 /\ pc = "idle") =>
         /\ SeenState(heap, root, Len(heap) + 1) = SeenState(OnNew.h, 1, Len(heap) + 1)
         /\ reactive = OnNew.registered
         /\ Kinds(output) = Kinds(OnNew.output)

\* The store was written, reset was called, and the execute after it has written
\* the new store
C18_Witness ==
  /\ cls = "ReactiveInterpreter"
  /\ runs = 1 /\ pc = "idle" /\ root # 1
  /\ heap[1].m # EmptyMap
  /\ prog # <<>> /\ heap[root].m # EmptyMap

----------------------------------------------------------------------------
(* Properties of get_state, and of set on a list *)

C20_ListSetOverwrites ==
  [][(calls' = calls + 1 /\ last'.op = "set") =>
       /\ \A a \in 1..Len(heap) :
            heap[a].tag = "list" =>
              heap'[a].tag = "list" /\ Len(heap'[a].e) = Len(heap[a].e)
       /\ LET path == last'.path
              parent == get_from(heap, RefV(root), SubSeq(path, 1, Len(path) - 1))
              index == IntOf(path[Len(path)])
          IN (/\ path # <<>>
              /\ parent.exc = "none" /\ IsList(heap, parent.v)
              /\ IsDigit(path[Len(path)])) =>
               IF index < Len(heap[parent.v.n].e)
                 THEN /\ last'.exc = "none"
                      /\ heap'[parent.v.n].e =
                           [heap[parent.v.n].e EXCEPT ![index + 1] = last'.value]
                      /\ \A b \in 1..Len(heap) : b # parent.v.n => heap'[b] = heap[b]
                 ELSE /\ last'.exc = "IndexError"
                      /\ \A b \in 1..Len(heap) : heap'[b] = heap[b]
    ]_vars

\* The second item of a list of two has been replaced
C20_Witness ==
  /\ last.op = "set" /\ last.exc = "none" /\ last.holder = "list"
  /\ last.path = <<"a", "1">>
  /\ get(heap, root, <<"a", "0">>) = Return(IntV(1))
  /\ get(heap, root, <<"a", "1">>) = Return(last.value)
  /\ get(heap, root, <<"a", "2">>).exc = "IndexError"

----------------------------------------------------------------------------
(* Properties of StateManager: what is created, what is raised, what is removed *)

\* The segment at place k of the path is a key missing from the dict that the
\* segments before it reach in heap h
MissingAt(h, rt, path, k) ==
  LET parent == get_from(h, RefV(rt), SubSeq(path, 1, k - 1)) IN
  parent.exc = "none" /\ IsDict(h, parent.v) /\ path[k] \notin DOMAIN h[parent.v.n].m

\* C21: set creates a missing non-terminal key, as an empty dict, only when it is the
\* first segment: set([a, b], v) with a missing succeeds and leaves a = {b: v}; a
\* non-terminal segment at depth 2 or more that is missing from a dict makes set
\* fail with KeyError.
C21_AutoCreateOnlyAtRoot ==
  [][(calls' = calls + 1 /\ last'.op = "set") =>
       LET path == last'.path IN
       \A k \in 1..(Len(path) - 1) :
         MissingAt(heap, root, path, k) =>
           IF k = 1
             THEN /\ path[1] \in DOMAIN heap'[root].m
                  /\ IF Len(path) = 2
                       THEN /\ last'.exc = "none"
                            /\ IsDict(heap', heap'[root].m[path[1]])
                            /\ heap'[heap'[root].m[path[1]].n].m =
                                 DictPut(EmptyMap, path[2], last'.value)
                       ELSE last'.exc = "KeyError"
             ELSE last'.exc = "KeyError"
    ]_vars

\* The segment at place k of the path is an index outside the list that the
\* segments before it reach in heap h
OutsideAt(h, rt, path, k) ==
  LET parent == get_from(h, RefV(rt), SubSeq(path, 1, k - 1)) IN
  /\ parent.exc = "none" /\ IsList(h, parent.v) /\ IsDigit(path[k])
  /\ IntOf(path[k]) >= Len(h[parent.v.n].e)

\* C22: get on a path with a segment that is an index outside its list raises
\* IndexError, get on a path with a segment that is a key missing from its dict
\* raises KeyError, and in both cases the store is as it was.
C22_GetErrors ==
  [][(calls' = calls + 1 /\ last'.op = "get") =>
       /\ \A k \in 1..Len(last'.path) :
            /\ OutsideAt(heap, root, last'.path, k) => last'.exc = "IndexError"
            /\ MissingAt(heap, root, last'.path, k) => last'.exc = "KeyError"
       /\ last'.exc # "none" => heap' = heap /\ root' = root
    ]_vars

\* get numbers.5 on a list of two has raised IndexError
C22_Witness ==
  /\ last.op = "get" /\ last.path = <<"a", "5">> /\ last.exc = "IndexError"
  /\ IsList(heap, heap[root].m["a"]) /\ Len(heap[heap[root].m["a"].n].e) = 2

\* C23: delete on a key of a dict removes that key and leaves every other key, and
\* every other container, as it was, and a second delete of the same path then
\* raises KeyError; delete on a key the dict does not have raises KeyError and
\* leaves the store as it was.
C23_DeleteKey ==
  [][(calls' = calls + 1 /\ last'.op = "delete" /\ last'.path # <<>>) =>
       LET path == last'.path
           key == path[Len(path)]
           parent == get_from(heap, RefV(root), SubSeq(path, 1, Len(path) - 1))
       IN (parent.exc = "none" /\ IsDict(heap, parent.v)) =>
            IF key \in DOMAIN heap[parent.v.n].m
              THEN /\ last'.exc = "none"
                   /\ root' = root /\ Len(heap') = Len(heap)
                   /\ DOMAIN heap'[parent.v.n].m = DOMAIN heap[parent.v.n].m \ {key}
                   /\ \A other \in DOMAIN heap'[parent.v.n].m :
                        heap'[parent.v.n].m[other] = heap[parent.v.n].m[other]
                   /\ \A b \in 1..Len(heap) : b # parent.v.n => heap'[b] = heap[b]
                   /\ delete(heap', root', path) = Left("KeyError", heap')
              ELSE /\ last'.exc = "KeyError"
                   /\ root' = root /\ heap' = heap
    ]_vars

\* A key has been deleted from a dict that had another key
C23_Witness ==
  /\ last.op = "delete" /\ last.exc = "none" /\ last.path = <<"a">>
  /\ DOMAIN heap[root].m = {"b"}

----------------------------------------------------------------------------
(* Properties of _evaluate_value *)

\* What an identifier stands for: the value at that top-level key, or its own name
Resolved(h, rt, name) == IF name \in DOMAIN h[rt].m THEN h[rt].m[name] ELSE StrV(name)

\* How many of the lines are the warning about this identifier
Warnings(out, name) == Cardinality({i \in 1..Len(out) : out[i] = IdentifierWarning(name)})

\* How many warnings a use of the identifier adds
Unresolved(name) == IF name \in DOMAIN heap[root].m THEN 0 ELSE 1

\* This step has executed the statement at the top level
JustRan(statement) ==
  /\ Len(trace') = Len(trace) + 1
  /\ trace'[Len(trace')].level = 0 /\ trace'[Len(trace')].statement = statement
\* The statement raised nothing, no error line was appended, and execute goes on
\* to the statement after it
WentOn ==
  /\ trace'[Len(trace')].exc = "none"
  /\ ~HasError(output')
  /\ IF ip < Len(prog) THEN ip' = ip + 1 /\ pc' = pc ELSE pc' = "idle"

\* C24: an identifier used as a value (of a set, of a pair of a state declaration,
\* inside an object or an array literal) is the value at that top-level key, the
\* very container if it is one; if the key is absent it is the identifier's name as
\* a string and one warning line is appended; nothing is raised and execute goes on.
C24_IdentifierValue ==
  [][/\ JustRan(SetYX) =>
          /\ heap'[root].m["y"] = Resolved(heap, root, "x")
          /\ Warnings(output', "x") = Warnings(output, "x") + Unresolved("x")
          /\ WentOn
     /\ JustRan(StateKX) =>
          /\ heap'[root].m["k"] = Resolved(heap, root, "x")
          /\ Warnings(output', "x") = Warnings(output, "x") + Unresolved("x")
          /\ WentOn
     /\ JustRan(SetYArray) =>
          /\ IsList(heap', heap'[root].m["y"])
          /\ heap'[heap'[root].m["y"].n].e = <<Resolved(heap, root, "x"), Resolved(heap, root, "w")>>
          /\ Warnings(output', "x") = Warnings(output, "x") + Unresolved("x")
          /\ Warnings(output', "w") = Warnings(output, "w") + Unresolved("w")
          /\ WentOn
     /\ JustRan(SetYObject) =>
          /\ IsDict(heap', heap'[root].m["y"])
          /\ heap'[heap'[root].m["y"].n].m = DictPut(EmptyMap, "k", Resolved(heap, root, "x"))
          /\ Warnings(output', "x") = Warnings(output, "x") + Unresolved("x")
          /\ WentOn
    ]_vars

\* set x = {} then set y = [x, w]: y holds the dict of x and the string "w", with
\* one warning, and a statement has been executed after it
C24_Witness ==
  /\ Len(trace) = 3
  /\ trace[2].statement = SetYArray /\ trace[2].exc = "none"
  /\ trace[3].exc = "none"
  /\ {"x", "y"} \subseteq DOMAIN heap[root].m
  /\ IsList(heap, heap[root].m["y"])
  /\ heap[heap[root].m["y"].n].e = <<heap[root].m["x"], StrV("w")>>
  /\ IsDict(heap, heap[root].m["x"])
  /\ Warnings(output, "w") = 1 /\ Warnings(output, "x") = 0

----------------------------------------------------------------------------
(* Properties of the Lexer *)

\* The line and the column of a position of the source, both counted from 1: the
\* newlines before it, and the characters since the last of them
LineAt(source, position) ==
  1 + Cardinality({i \in 1..position : source[i] = "\n"})
ColumnAt(source, position) ==
  LET before == {i \in 1..position : source[i] = "\n"} IN
  IF before = {} THEN position + 1
  ELSE position + 1 - (CHOOSE i \in before : \A j \in before : j <= i)

\* C25: every token tokenize emits is the text of the source at the position the
\* lexer was at and carries the line and column of that position, whitespace and
\* newlines skipped before it counted; the EOF token carries those of the end of
\* the source; when no pattern matches, the error names the character at the
\* position and its line and column.
C25_TokenPositions ==
  [][/\ Len(lexer'.tokens) = Len(lexer.tokens) + 1 =>
          LET token == lexer'.tokens[Len(lexer'.tokens)] IN
          /\ token.line = LineAt(lexer.source, lexer.position)
          /\ token.column = ColumnAt(lexer.source, lexer.position)
          /\ token.value =
               SubSeq(lexer.source, lexer.position + 1, lexer.position + Len(token.value))
          /\ lexer'.position = lexer.position + Len(token.value)
          /\ (token.type = "EOF") = (lexer.position = Len(lexer.source))
          /\ (token.type # "EOF") => token.value # <<>>
     /\ (lexer'.state = "scanning" /\ lexer'.tokens = lexer.tokens) =>
          /\ lexer'.position > lexer.position
          /\ \A i \in (lexer.position + 1)..lexer'.position :
               lexer.source[i] \in WhitespaceChars
     /\ lexer'.state = "raised" =>
          /\ lexer'.tokens = lexer.tokens
          /\ lexer'.error.character = lexer.source[lexer.position + 1]
          /\ lexer'.error.line = LineAt(lexer.source, lexer.position)
          /\ lexer'.error.column = ColumnAt(lexer.source, lexer.position)
    ]_vars

\* A source of two lines has been tokenized: its second line begins with a space
\* and then a token, which is at line 2, column 2
C25_Witness ==
  /\ lexer.state = "returned"
  /\ Len(lexer.tokens) = 3
  /\ lexer.tokens[2].type = "NUMBER"
  /\ lexer.tokens[2].line = 2 /\ lexer.tokens[2].column = 2
  /\ lexer.tokens[3].type = "EOF"
  /\ lexer.tokens[3].line = 2 /\ lexer.tokens[3].column = 3

----------------------------------------------------------------------------
(* Properties of the Parser *)

\* The kinds of the tokens before EOF
KindsOf(tokens) == [i \in 1..(Len(tokens) - 1) |-> <<tokens[i].type, tokens[i].value>>]

\* A colon is followed by no value: by a comma or by a closing brace
ValueMissing(tokens) ==
  \E i \in 1..(Len(tokens) - 1) :
    tokens[i].type = "COLON" /\ tokens[i + 1].type \in {"COMMA", "RIGHT_BRACE"}

\* C26: on the tokens of a state declaration that lacks nothing but the value of
\* one or more of its keys, parse does not raise.
C26_MissingValueReturns ==
  (KindsOf(parser.tokens) \in Declarations /\ ValueMissing(parser.tokens)) =>
    parser.state # "raised"

\* C27: whenever parse raises, the token the parser is at is EOF.
C27_RaisesOnlyAtEnd ==
  parser.state = "raised" => peek(parser.tokens, parser.current).type = "EOF"

----------------------------------------------------------------------------
(* Properties of the cascade past its second level, of state declarations and
   of rules on an index out of range *)

Registered(rule) == \E r \in 1..Len(reactive) : reactive[r] = rule
RanAtTop(statement) ==
  \E i \in 1..Len(trace) :
    trace[i].level = 0 /\ trace[i].statement = statement /\ trace[i].exc = "none"
Returned == pc = "idle" /\ cls = "ReactiveInterpreter" /\ ~HasError(output)

\* C28: cascading applies at every depth: with the rules x > 0: set y = 1,
\* y == 1: set z = 1 and z == 1: set w = 1 registered, an execute that ran a
\* top-level set x = 1 and returned without an error leaves y, z and w all 1.
C28_CascadeEveryDepth ==
  (Returned /\ Registered(ReactX) /\ Registered(ReactYZ) /\ Registered(ReactZW)
     /\ RanAtTop(SetX1)) =>
    /\ get(heap, root, <<"y">>) = Return(IntV(1))
    /\ get(heap, root, <<"z">>) = Return(IntV(1))
    /\ get(heap, root, <<"w">>) = Return(IntV(1))

\* C29: the engine runs after a state declaration's writes too: with the rule
\* x > 0: set y = 1 registered, an execute that ran state { x: 1 } and returned
\* without an error has run the rule's set y = 1 as a fired action.
C29_DeclarationTriggers ==
  (Returned /\ Registered(ReactX) /\ RanAtTop(StateX1)) =>
    \E i, j \in 1..Len(trace) :
      /\ i < j
      /\ trace[i].level = 0 /\ trace[i].statement = StateX1
      /\ trace[j].level = 1 /\ trace[j].statement = SetY1
      /\ \A m \in (i + 1)..j : trace[m].level # 0

\* C30: an IndexError raised while a reactive check resolves a rule's target is
\* not fatal: with the rule on u.5 registered, an execute that ran a top-level
\* set u = [1] has, when it returns, run every statement of its program.
C30_IndexErrorInCheckIsNotFatal ==
  ( /\ pc = "idle" /\ cls = "ReactiveInterpreter"
    /\ Registered(ReactU5)
    /\ \E i \in 1..Len(trace) : trace[i].level = 0 /\ trace[i].statement = SetU ) =>
    RanTop = Runnable

----------------------------------------------------------------------------
(* Properties of the state and the registry under a client's calls *)

\* C31: whatever set, delete, clear, set_state (of a dict), execute and reset
\* have done, self.state is a dict, never a list or a scalar.
C31_RootIsObject == root \in 1..Len(heap) /\ heap[root].tag = "dict"

C31_Witness ==
  /\ last.op = "set_state" /\ last.value.n # root
  /\ heap[root].m # EmptyMap
  /\ pc = "idle" /\ trace # <<>>

\* C32: the registry is append-only: no step but reset takes a rule out of it,
\* moves one or changes one (the rules registered before the step are the first
\* rules after it, as they were), and StateManager.clear leaves it as it is.
C32_RegistryAppendOnly ==
  [][ /\ Reset \/ ( /\ Len(reactive') >= Len(reactive)
                   /\ \A i \in 1..Len(reactive) : reactive'[i] = reactive[i] )
      /\ ClientClear => reactive' = reactive
    ]_vars

C32_Witness ==
  /\ reactive = <<ReactX>> /\ last.op = "clear"
  /\ pc = "idle" /\ "y" \in DOMAIN heap[root].m

\* The path goes on after a value that is neither a dict nor a list
ThroughScalar(h, rt, path) ==
  \E k \in 0..(Len(path) - 1) :
    LET r == get(h, rt, SubSeq(path, 1, k)) IN r.exc = "none" /\ r.v.t # "ref"

\* C33: StateManager.get on a path that goes on after a scalar fails with the
\* error of a type mismatch (TypeError, as set does), not with the KeyError of a
\* path that is not found.
C33_GetThroughScalar ==
  (last.op = "get" /\ ThroughScalar(heap, root, last.path)) =>
    (last.exc = "TypeError" /\ last.exc # "KeyError")

----------------------------------------------------------------------------
(* Properties of the AST that parse returns *)

\* None is the node, or a value inside it
RECURSIVE Absent(_)
Absent(node) ==
  \/ node = NoneNode
  \/ \E i \in 1..Len(node.pairs) : Absent(node.pairs[i].value)
  \/ \E i \in 1..Len(node.elements) : Absent(node.elements[i])
AbsentIn(statement) ==
  IF statement.stmt = "StateDeclaration"
    THEN \E i \in 1..Len(statement.pairs) : Absent(statement.pairs[i].value)
    ELSE Absent(statement.value)

\* C34: when parse returns, no value of a pair, element of an array or
\* expression of a set or print statement of the AST is None.
C34_NoAbsentValue ==
  parser.state = "returned" =>
    \A i \in 1..Len(parser.statements) : ~AbsentIn(parser.statements[i])

----------------------------------------------------------------------------
(* Properties of what an execute that failed leaves *)

\* The statement at trace[i] wrote a literal at its path, and nothing run after
\* it in this call wrote at or below the same top-level key
Written(i) ==
  /\ trace[i].exc = "none"
  /\ IsSetStatement(trace[i].statement)
  /\ trace[i].statement.value.node = "Literal"
Overwritten(i) ==
  \E j \in (i + 1)..Len(trace) :
    \/ /\ IsSetStatement(trace[j].statement)
       /\ PathOf(trace[j].statement)[1] = PathOf(trace[i].statement)[1]
    \/ \E k \in 1..Len(trace[j].statement.pairs) :
         trace[j].statement.pairs[k].key = PathOf(trace[i].statement)[1]

\* C35: no rollback: when execute has stopped with an error line, the output is
\* not empty and every value a set of this call wrote before the error, the
\* triggering top-level set's included, is still in the store.
C35_NoRollback ==
  (pc = "idle" /\ HasError(output)) =>
    /\ output # <<>>
    /\ \A i \in 1..Len(trace) :
         (Written(i) /\ ~Overwritten(i)) =>
           get(heap, root, PathOf(trace[i].statement)) = Return(trace[i].statement.value.value)

C35_Witness ==
  /\ pc = "idle" /\ HasError(output)
  /\ \E i, j \in 1..Len(trace) :
       /\ i < j
       /\ trace[i].level = 0 /\ trace[i].statement = SetX1 /\ trace[i].exc = "none"
       /\ trace[j].level = 1 /\ trace[j].exc # "none"
       /\ get(heap, root, <<"x">>) = Return(IntV(1))

----------------------------------------------------------------------------
(* Properties of check_reactive_statements called by a client *)

----------------------------------------------------------------------------
(* Properties of the batch of actions a top-level set fires *)

InBatch == {"triggered", "chained"}

\* C37: the batch is fixed at check time: it is the actions whose conditions are
\* true of the store right after the triggering write; while it runs it does not
\* change; each of its actions is executed in its turn, whatever the store has
\* become, and the loop ends at the last of them unless an action fails.
C37_BatchFixedAtCheck ==
  [][ /\ (pc = "pass2" /\ pc' = "triggered") =>
           /\ {batch'[k].from : k \in 1..Len(batch')} =
                TrueActions(heap', root', reactive', PathOf(prog[ip]))
           /\ Len(batch') = Cardinality(TrueActions(heap', root', reactive', PathOf(prog[ip])))
           /\ trace'[Len(trace')].statement = prog[ip] /\ Len(trace') = Len(trace) + 1
      /\ (pc = "triggered") =>
           /\ Len(trace') = Len(trace) + 1
           /\ trace'[Len(trace')].level = 1
           /\ trace'[Len(trace')].place = batch[ti].from
           /\ trace'[Len(trace')].statement = batch[ti].action
      /\ (pc \in InBatch /\ pc' \in InBatch) => (batch' = batch /\ ti' \in {ti, ti + 1})
      /\ (pc \in InBatch /\ pc' \notin InBatch /\ ~HasError(output')) => ti = Len(batch)
    ]_vars

\* The second action of react to x when == 1 { set x = 2  set y = 1 } has run
\* after the first had made x 2
C37_Witness ==
  /\ pc = "idle" /\ ~HasError(output)
  /\ \E i, j \in 1..Len(trace) :
       /\ i < j
       /\ trace[i].level = 1 /\ trace[i].statement = SetX2 /\ trace[i].exc = "none"
       /\ trace[j].level = 1 /\ trace[j].statement = SetY1 /\ trace[j].exc = "none"
       /\ trace[i].place[1] = trace[j].place[1]
       /\ reactive[trace[i].place[1]] = ReactXOnce
       /\ \A m \in i..j : trace[m].level # 0
  /\ get(heap, root, <<"x">>) = Return(IntV(2))
  /\ get(heap, root, <<"y">>) = Return(IntV(1))

----------------------------------------------------------------------------
(* Properties of executing one program again *)

\* The calls of execute so far, each of prog, and the react statements of prog
Executions == used \div Len(prog)
\* The entries that came from the action at <<c, ai>> of a registration of the
\* j-th react statement of prog
Copies(entries, j, c, ai) ==
  { b \in 1..Len(entries) :
      /\ entries[b][1] % Len(Reacts) = j % Len(Reacts)
      /\ entries[b][2] = c /\ entries[b][3] = ai }
EachOrNone(entries) ==
  \A j \in 1..Len(Reacts) :
    \A c \in 1..Len(Reacts[j].conditions) :
      \A ai \in 1..Len(Reacts[j].conditions[c].actions) :
        Cardinality(Copies(entries, j, c, ai)) \in {0, Executions}

\* C38: every execute registers the react statements of its program again: once
\* the k-th execute of a program with n react statements has registered, the
\* registry is those n rules k times over; the set of the k-th call that fires an
\* action of a rule fires it k times, and if no action fails it is run k times.
C38_ReexecutionDuplicates ==
  (cls = "ReactiveInterpreter" /\ prog # <<>> /\ pc # "pass1") =>
    /\ Len(reactive) = Executions * Len(Reacts)
    /\ \A i \in 1..Len(reactive) : reactive[i] = Reacts[((i - 1) % Len(Reacts)) + 1]
    /\ Reacts # <<>> => EachOrNone([b \in 1..Len(batch) |-> batch[b].from])
    /\ (Reacts # <<>> /\ pc \in {"pass2", "idle"} /\ ~HasError(output)) =>
         EachOrNone([b \in 1..Len(FiredFirstLevel) |-> FiredFirstLevel[b].place])

C38_Witness ==
  /\ cls = "ReactiveInterpreter" /\ pc = "idle" /\ ~HasError(output)
  /\ prog = <<ReactX, SetX1>> /\ Executions = 3
  /\ Len(reactive) = 3 /\ Len(FiredFirstLevel) = 3

----------------------------------------------------------------------------
(* Properties of a container stored under a second key by its name *)

\* Entry i of the trace is a set that succeeded: _execute_set_statement of the
\* ReactiveInterpreter has no try, so a set that did not raise wrote its value
Succeeded(i) ==
  /\ cls = "ReactiveInterpreter"
  /\ trace[i].exc = "none" /\ IsSetStatement(trace[i].statement)
\* Entry h put a container literal at top-level key a, entry i is set b = a, and
\* between h and i nothing wrote a
Named(h, i, a, b) ==
  /\ h < i /\ a # b
  /\ Succeeded(h) /\ PathOf(trace[h].statement) = <<a>>
  /\ trace[h].statement.value.node \in {"Object", "Array"}
  /\ Succeeded(i) /\ PathOf(trace[i].statement) = <<b>>
  /\ trace[i].statement.value = Identifier(a)
  /\ \A m \in (h + 1)..(i - 1) : PathOf(trace[m].statement) # <<a>>
\* Entry j is a set of a scalar below one of the two keys, nothing between i and j
\* or after j wrote either key itself, and nothing after j wrote the same place
Below(i, j, a, b) ==
  /\ i < j /\ Succeeded(j)
  /\ Len(PathOf(trace[j].statement)) = 2
  /\ PathOf(trace[j].statement)[1] \in {a, b}
  /\ trace[j].statement.value.node = "Literal"
  /\ \A m \in (i + 1)..Len(trace) : PathOf(trace[m].statement) \notin {<<a>>, <<b>>}
  /\ \A m \in (j + 1)..Len(trace) :
       ~( /\ Succeeded(m) /\ Len(PathOf(trace[m].statement)) = 2
          /\ PathOf(trace[m].statement)[1] \in {a, b}
          /\ PathOf(trace[m].statement)[2] = PathOf(trace[j].statement)[2] )
AliasKeys == {"x", "y", "u"}

\* C39: set b = a, with a the top-level key of an Object or Array, puts that very
\* container at b: the two keys hold one container, and the value a later set
\* writes below either key is what get returns below the other.
C39_IdentifierAliases ==
  \A a \in AliasKeys, b \in AliasKeys :
    \A h \in 1..Len(trace), i \in 1..Len(trace) :
      Named(h, i, a, b) =>
        /\ (\A m \in (i + 1)..Len(trace) : PathOf(trace[m].statement) \notin {<<a>>, <<b>>})
             => /\ get(heap, root, <<a>>).exc = "none"
                /\ get(heap, root, <<a>>).v.t = "ref"
                /\ get(heap, root, <<b>>) = get(heap, root, <<a>>)
        /\ \A j \in 1..Len(trace) :
             Below(i, j, a, b) =>
               LET seg == PathOf(trace[j].statement)[2]
                   written == Return(trace[j].statement.value.value)
               IN /\ get(heap, root, <<a, seg>>) = written
                  /\ get(heap, root, <<b, seg>>) = written

\* set x = {}  set y = x  set x.a = 1, or the same with set y.a = 1 last
C39_Witness ==
  /\ pc = "idle" /\ cls = "ReactiveInterpreter"
  /\ prog \in {<<SetXObj, SetYX, SetXA>>, <<SetXObj, SetYX, SetYA>>}
  /\ Len(trace) = 3 /\ Succeeded(3)
  /\ get(heap, root, <<"y", "a">>) = Return(IntV(1))
  /\ get(heap, root, <<"x", "a">>) = Return(IntV(1))

----------------------------------------------------------------------------
(* Properties of the loop of parse *)

StatementStarts == {"STATE", "SET", "PRINT"}

\* C40: every iteration of the loop of parse moves current forward by at least
\* one token and never past EOF; an iteration that finds a token that starts no
\* statement moves current by exactly one, adds no statement and does not raise;
\* and a parse that was called comes to return or to raise.
C40_ParserProgress ==
  /\ [][ (parser.state = "parsing" /\ ~is_at_end(parser.tokens, parser.current)) =>
           /\ parser'.current > parser.current
           /\ parser'.current < Len(parser.tokens)
           /\ parser'.tokens = parser.tokens
           /\ peek(parser.tokens, parser.current).type \notin StatementStarts =>
                /\ parser'.current = parser.current + 1
                /\ parser'.statements = parser.statements
                /\ parser'.state = "parsing" ]_vars
  /\ (parser.state = "parsing") ~> (parser.state \in {"returned", "raised"})

\* : state {  has been parsed: the colon is gone, the declaration is kept
C40_Witness ==
  /\ parser.state = "returned"
  /\ Len(parser.tokens) = 4
  /\ parser.tokens[1].type = "COLON" /\ parser.tokens[2].type = "STATE"
  /\ parser.tokens[3].type = "LEFT_BRACE"
  /\ Len(parser.statements) = 1
  /\ parser.current = 3

====
